---- MODULE Spec2Model ----
(***************************************************************************)
(* The personalized feed ranking engine of xerox.yt: getXraiRecommendations *)
(* and getXraiShorts (src/utils/recommendation.ts) and                      *)
(* getDeeplyAnalyzedRecommendations (src/unnamed/part_001).                 *)
(*                                                                          *)
(* One behaviour is one invocation of one engine function: the calls are    *)
(* issued, every call settles on its own (in any order), Promise.all hands  *)
(* the values over, and the synchronous rest of the function produces the   *)
(* result.  Strings are sequences of one-character strings; scores and      *)
(* weights are fixed point, in hundredths.                                  *)
(***************************************************************************)
EXTENDS Integers, Sequences, FiniteSets, TLC

(***************************************************************************)
(* Strings.                                                                 *)
(***************************************************************************)
UpperCase == <<"A", "B", "C", "D", "E", "F", "G", "H", "K", "N", "O", "S", "T", "W", "X">>

LowerCase == <<"a", "b", "c", "d", "e", "f", "g", "h", "k", "n", "o", "s", "t", "w", "x">>

\* String.prototype.toLowerCase, one character.
LowerChar(c) ==
    IF \E k \in 1..Len(UpperCase) : UpperCase[k] = c
    THEN LowerCase[CHOOSE k \in 1..Len(UpperCase) : UpperCase[k] = c]
    ELSE c

\* String.prototype.toLowerCase.
ToLowerCase(s) == [k \in 1..Len(s) |-> LowerChar(s[k])]

\* String.prototype.includes: sub occurs in s as a contiguous run.
Includes(s, sub) ==
    \E k \in 0..(Len(s) - Len(sub)) :
        \A j \in 1..Len(sub) : s[k + j] = sub[j]

\* String.prototype.startsWith.
StartsWith(s, pre) ==
    /\ Len(pre) <= Len(s)
    /\ \A j \in 1..Len(pre) : s[j] = pre[j]

\* The elements of a sequence.
Range(s) == {s[k] : k \in 1..Len(s)}

\* Array.prototype.slice(0, n).
Take(s, n) == IF Len(s) <= n THEN s ELSE SubSeq(s, 1, n)

\* Array.prototype.flat on a sequence of sequences.
RECURSIVE Flat(_)
Flat(ss) == IF ss = <<>> THEN <<>> ELSE Head(ss) \o Flat(Tail(ss))

\* String.prototype.split on one separator character.
RECURSIVE SplitOn(_, _, _)
SplitOn(s, seps, cur) ==
    IF s = <<>> THEN <<cur>>
    ELSE IF Head(s) \in seps THEN <<cur>> \o SplitOn(Tail(s), seps, <<>>)
    ELSE SplitOn(Tail(s), seps, Append(cur, Head(s)))

\* Array.prototype.join(' ').
RECURSIVE JoinSpace(_)
JoinSpace(ws) ==
    IF ws = <<>> THEN <<>>
    ELSE IF Len(ws) = 1 THEN Head(ws)
    ELSE Head(ws) \o <<" ">> \o JoinSpace(Tail(ws))

\* String.prototype.trim.
RECURSIVE TrimLeft(_)
TrimLeft(s) == IF s # <<>> /\ Head(s) = " " THEN TrimLeft(Tail(s)) ELSE s

RECURSIVE TrimRight(_)
TrimRight(s) ==
    IF s # <<>> /\ s[Len(s)] = " " THEN TrimRight(SubSeq(s, 1, Len(s) - 1)) ELSE s

Trim(s) == TrimRight(TrimLeft(s))

(***************************************************************************)
(* Math.random.  One invocation draws from one stream, fixed by its seed:   *)
(* Rand(seed, salt, k, bound) is floor(Math.random() * bound) for the k-th   *)
(* draw of the call site salt.  Seed 0 draws 0 every time.                  *)
(***************************************************************************)
MaxSeed == 1

Seeds == 0..MaxSeed

Rand(seed, salt, k, bound) == (seed * 131 * (salt + 7 * k)) % bound

\* [newArray[i], newArray[j]] = [newArray[j], newArray[i]]
Swap(a, i, j) == [a EXCEPT ![i] = a[j], ![j] = a[i]]

\* The iterations i = hi down to lo of the loop of shuffleArray (1-based):
\* first those above the middle, then the rest.
RECURSIVE ShuffleFrom(_, _, _, _, _)
ShuffleFrom(a, lo, hi, seed, salt) ==
    IF lo > hi THEN a
    ELSE IF lo = hi THEN Swap(a, lo, 1 + Rand(seed, salt, lo, lo))
    ELSE LET mid == (lo + hi) \div 2
             upper == ShuffleFrom(a, mid + 1, hi, seed, salt)
         IN IF Len(upper) = Len(a) THEN ShuffleFrom(upper, lo, mid, seed, salt) ELSE a

\* shuffleArray: Fisher-Yates on a copy, for (let i = length - 1; i > 0; i--).
shuffleArray(array, seed, salt) == ShuffleFrom(array, 2, Len(array), seed, salt)

(***************************************************************************)
(* cleanTitleForSearch.  "[[" and "]]" stand for the fullwidth bracket pair *)
(* of the regular expression.                                               *)
(***************************************************************************)
Closer(c) ==
    CASE c = "[[" -> "]]"
      [] c = "[" -> "]"
      [] c = "(" -> ")"
      [] OTHER -> ""

\* The index of the first occurrence of c in s, 0 when there is none.
IndexOf(s, c) ==
    IF \E k \in 1..Len(s) : s[k] = c
    THEN CHOOSE k \in 1..Len(s) : s[k] = c /\ \A j \in 1..(k - 1) : s[j] # c
    ELSE 0

\* title.replace(/<fullwidth pair>|\[.*?\]|\(.*?\)/g, '')
RECURSIVE RemoveBracketed(_)
RemoveBracketed(s) ==
    IF s = <<>> THEN <<>>
    ELSE LET close == Closer(Head(s))
             at == IF close = "" THEN 0 ELSE IndexOf(Tail(s), close)
         IN IF at > 0
            THEN RemoveBracketed(SubSeq(s, at + 2, Len(s)))
            ELSE <<Head(s)>> \o RemoveBracketed(Tail(s))

cleanTitleForSearch(title) ==
    JoinSpace(Take(SplitOn(Trim(RemoveBracketed(title)), {" "}, <<>>), 4))

(***************************************************************************)
(* extractKeywords (./xrai): hashtags verbatim, words split on whitespace   *)
(* and punctuation, words of length <= 1 and boilerplate prefixes dropped,  *)
(* no case folding.                                                         *)
(***************************************************************************)
Boilerplate ==
    {<<"h", "t", "t", "p">>, <<"w", "w", "w">>, <<"c", "o", "m">>, <<"j", "p">>}

Separators == {" ", ",", ".", "[", "]", "[[", "]]", "(", ")"}

extractKeywords(text) ==
    SelectSeq(SplitOn(text, Separators, <<>>),
              LAMBDA w : /\ Len(w) > 1
                         /\ ~ \E b \in Boilerplate : StartsWith(w, b))

(***************************************************************************)
(* Videos and channels (../types).  seconds is what parseDuration makes of  *)
(* the video's isoDuration and duration.                                    *)
(***************************************************************************)
\* The one channel the brand filter of part_001 lets through.
XEROX_CHANNEL == "UCCMV3NfZk_NB-MmUvHj6aFw"

ChannelNames ==
    ("c1" :> <<"a", "m", "y">>) @@ ("c2" :> <<"b", "o", "b">>) @@ ("c3" :> <<"c", "y">>)
        @@ ("c4" :> <<"d", "e", "e">>) @@ ("c5" :> <<"e", "v", "e">>)
        @@ (XEROX_CHANNEL :> <<"X", "e", "r", "o", "x">>)

Channel(cid) == [id |-> cid, name |-> ChannelNames[cid]]

Vid(vid, cid, ttl, secs) ==
    [id |-> vid, channelId |-> cid, title |-> ttl,
     channelName |-> ChannelNames[cid], seconds |-> secs]

Cat == <<"c", "a", "t">>

Dog == <<"D", "o", "g">>

Fox == <<"f", "o", "x">>

Owl == <<"o", "w", "l">>

CatFox == Cat \o <<" ">> \o Fox

CatTag == Cat \o <<" ">> \o <<"t", "a", "g">>

ShortsTag == <<"#", "s", "h", "o", "r", "t", "s">>

\* Long-form videos.
V1 == Vid(1, "c1", Cat, 300)

V1b == Vid(1, "c5", CatTag, 300)

V2 == Vid(2, "c2", Dog, 300)

V3 == Vid(3, "c3", Cat, 300)

V4 == Vid(4, "c1", Fox, 300)

V5 == Vid(5, "c4", Owl, 300)

V6 == Vid(6, "c4", CatFox, 300)

V7 == Vid(7, "c5", <<"(", "x", ")", " ">> \o Cat, 61)

V8 == Vid(8, "c2", <<"X", "e", "r", "o", "x", " ">> \o Cat, 300)

V9 == Vid(9, XEROX_CHANNEL, Fox, 300)

V10 == Vid(10, "c5", <<"N", "e", "w", "s">>, 300)

\* Short-form videos.
S11 == Vid(11, "c1", Cat, 30)

S11b == Vid(11, "c5", CatTag, 30)

S12 == Vid(12, "c2", Fox \o <<" ">> \o <<"#", "S", "h", "o", "r", "t", "s">>, 0)

S13 == Vid(13, "c3", Fox, 20)

S14 == Vid(14, "c1", Fox, 45)

S15 == Vid(15, "c2", <<"D", "O", "G">>, 15)

S16 == Vid(16, "c4", Owl, 30)

S17 == Vid(17, "c1", CatFox, 50)

S18 == Vid(18, "c4", Cat, 60)

S19 == Vid(19, "c5", Fox, 10)

S20 == Vid(20, "c1", Owl \o <<" ">> \o Cat, 1)

\* isShortVideo
isShortVideo(v) ==
    \/ v.seconds > 0 /\ v.seconds <= 60
    \/ Includes(ToLowerCase(v.title), ShortsTag)

(***************************************************************************)
(* The caller's signals (RecommendationSource).                             *)
(***************************************************************************)
MaxHist == 5

SubCounts == {0, 1}

MaxPage == 2

\* Most recent first.
HistoryList == <<V6, V1, V7, V4, V5, V2, V3>>

ShortsHistoryList == <<S19, S17>>

SubsList == <<Channel("c1"), Channel("c4"), Channel("c5"), Channel("c2")>>

SearchHistoryList == <<Fox, Cat>>

GenreList == <<Cat, Owl>>

\* negativeKeywords: Map<string, number>, as the set of its entries.
NegativeTable == {<<Owl, 3>>, <<Fox, 1>>, <<Channel("c1").name, 1>>}

NoBlocks ==
    [ngKeywords |-> <<>>, ngChannels |-> <<>>, hiddenVideos |-> <<>>,
     negativeKeywords |-> {}]

Blocks ==
    [ngKeywords |-> <<<<"D", "O", "G">>>>, ngChannels |-> <<Channel("c3")>>,
     hiddenVideos |-> <<4, 14>>, negativeKeywords |-> NegativeTable]

MkSources(h, sh, s, q, g, b, seen, page) ==
    [watchHistory |-> Take(HistoryList, h),
     shortsHistory |-> Take(ShortsHistoryList, sh),
     subscribedChannels |-> Take(SubsList, s),
     searchHistory |-> Take(SearchHistoryList, q),
     preferredGenres |-> Take(GenreList, g),
     ngKeywords |-> b.ngKeywords,
     ngChannels |-> b.ngChannels,
     hiddenVideos |-> b.hiddenVideos,
     negativeKeywords |-> b.negativeKeywords,
     seenIds |-> seen,
     page |-> page]

HomeSources ==
    {MkSources(h, 0, s, 0, 0, b, <<>>, 1) :
        h \in 0..MaxHist, s \in SubCounts, b \in {NoBlocks, Blocks}}

ShortsSources ==
    {MkSources(h, sh, s, 0, 0, b, seen, 1) :
        h \in {0, 1}, sh \in {0, 1}, s \in SubCounts, b \in {NoBlocks, Blocks},
        seen \in {<<>>, <<12>>}}

\* part_001 takes ngChannels as channel ids (string[]).
DeepBlocks == [Blocks EXCEPT !.ngChannels = <<"c3">>]

DeepSources ==
    {MkSources(h, 0, s, q, q, DeepBlocks, <<>>, page) :
        h \in 0..MaxHist, s \in SubCounts, q \in {0, 1}, page \in 1..MaxPage}

(***************************************************************************)
(* The content source (./api): what each capability answers.  The n-th call *)
(* of a kind gets the n-th answer of that kind, cyclically.                 *)
(***************************************************************************)
SmallWorld ==
    [trending |-> <<V1, S11, V2, S13, V4, S15, S12, V3, S14, V6, S16>>,
     search |-> <<[videos |-> <<V6, V1b, S17>>, shorts |-> <<S12, S20>>],
                  [videos |-> <<V7, V5, S18, V2>>, shorts |-> <<S11b, S16, S19>>],
                  [videos |-> <<V3, V1, V4>>, shorts |-> <<S13, S15, S14>>]>>,
     related |-> <<<<V6, V1b, V4, S17, V8>>, <<V7, V2, V6, V9, V10>>>>,
     channel |-> <<<<V1, V4, S11, S14, S17, S20>>, <<V5, V6, S16>>>>]

\* A large content source: long-form videos k, one channel in five blocked.
BulkVideo(k) ==
    Vid(k, <<"c1", "c2", "c3", "c4", "c5">>[(k % 5) + 1], Cat, 300)

\* Eight short-form videos, ids from + 1 to from + 8.
BulkShorts(from) ==
    [k \in 1..8 |->
        Vid(from + k, <<"c1", "c2", "c3", "c4", "c5">>[(k % 5) + 1], Fox, 30)]

BulkTrending(t) == [k \in 1..t |-> BulkVideo(100 + k)] \o BulkShorts(200)

\* The n-th search answer: three videos that are trending too, p of its own,
\* and two that every search returns; eight shorts of its own.
BulkSearch(n, p) ==
    [videos |-> [k \in 1..3 |-> BulkVideo(100 + k)]
                  \o [k \in 1..p |-> BulkVideo(1000 * n + k)]
                  \o [k \in 1..2 |-> BulkVideo(5000 + k)],
     shorts |-> BulkShorts(1000 * n + 500)]

\* The answers of the content source a behaviour runs against.
World(w) ==
    IF w.bulk
    THEN [trending |-> BulkTrending(w.trending),
          search |-> [n \in 1..3 |-> BulkSearch(n, w.search)],
          related |-> <<<<>>>>,
          channel |-> <<<<>>>>]
    ELSE SmallWorld

Nth(answers, n) == answers[((n - 1) % Len(answers)) + 1]

\* The value the capability resolves with for a call.
Answer(w, call) ==
    CASE call.kind = "trending" -> [videos |-> w.trending, shorts |-> <<>>]
      [] call.kind = "search" -> Nth(w.search, call.n)
      [] call.kind = "details" -> [videos |-> Nth(w.related, call.n), shorts |-> <<>>]
      [] call.kind = "channel" -> [videos |-> Nth(w.channel, call.n), shorts |-> <<>>]

(***************************************************************************)
(* State.                                                                   *)
(***************************************************************************)
VARIABLES
    fn,          \* the engine function invoked: "home", "shorts" or "deep"
    sources,     \* its argument
    world,       \* which answers the content source gives (see World)
    pc,          \* "idle", "awaiting" (at await Promise.all) or "done"
    seed,        \* the Math.random stream before the await
    calls,       \* the fetch calls issued, in the order of the promise array
    fails,       \* the calls the content source has failed
    settled,     \* the calls whose promise has settled
    values,      \* Promise.all's array of settled values, by call
    seedAfter,   \* the Math.random stream after the await
    candidates,  \* the candidates handed to filtering
    clean,       \* what filtering kept
    walk,        \* the diversity walk of getXraiShorts, one record per item
    backfilled,  \* the fallback of getXraiShorts added to the feed
    out,         \* the value returned: [videos, shorts]
    result,      \* "pending", "resolved" or "rejected"
    prev,        \* the caller's record of earlier invocations (see Again)
    userVector,  \* getXraiShorts' term-weight Map while it is built
    weighed,     \* the addWeight calls made on userVector so far
    home,        \* the HomePage component: its state, its ref, its loads in flight
    prefs        \* the PreferenceProvider component, with the browser's localStorage

vars ==
    <<fn, sources, world, pc, seed, calls, fails, settled, values, seedAfter,
      candidates, clean, walk, backfilled, out, result, prev, userVector, weighed,
      home, prefs>>

\* The state outside the fetch phase of an engine invocation.
outside == <<userVector, weighed, home, prefs>>

\* The state of an engine invocation.
engine ==
    <<fn, sources, world, pc, seed, calls, fails, settled, values, seedAfter,
      candidates, clean, walk, backfilled, out, result, prev>>

\* A component that is not rendered.
Unmounted == [mounted |-> FALSE]

NoClean == [trendingVideos |-> <<>>, personalizedVideos |-> <<>>,
            trendingShorts |-> <<>>, personalizedShorts |-> <<>>]

NoOut == [videos |-> <<>>, shorts |-> <<>>]

\* No invocation has finished yet.
NoPrev == [runs |-> 0, first |-> <<>>]

EngineIdle ==
    /\ pc = "idle"
    /\ seed = 0
    /\ calls = <<>>
    /\ fails = {}
    /\ settled = {}
    /\ values = <<>>
    /\ seedAfter = 0
    /\ candidates = <<>>
    /\ clean = NoClean
    /\ walk = <<>>
    /\ backfilled = FALSE
    /\ out = NoOut
    /\ result = "pending"
    /\ prev = NoPrev
    /\ userVector = <<>>
    /\ weighed = 0

Idle ==
    /\ EngineIdle
    /\ home = Unmounted
    /\ prefs = Unmounted

Init ==
    /\ world = [bulk |-> FALSE, trending |-> 0, search |-> 0]
    /\ \/ fn = "home" /\ sources \in HomeSources
       \/ fn = "shorts" /\ sources \in ShortsSources
       \/ fn = "deep" /\ sources \in DeepSources
    /\ Idle

(***************************************************************************)
(* Promises.                                                                *)
(***************************************************************************)
Pending == [state |-> "pending", videos |-> <<>>, shorts |-> <<>>]

Fulfilled(vs, ss) == [state |-> "fulfilled", videos |-> vs, shorts |-> ss]

Rejected == [state |-> "rejected", videos |-> <<>>, shorts |-> <<>>]

\* A variant without the .catch handlers: the rejection stays.
RecoverNothing == Rejected

\* .catch(() => []) and .catch(() => ({ videos: [], shorts: [] }))
Recover == Fulfilled(<<>>, <<>>)

\* The .then handler of each call.
OnFulfilled(f, call, res) ==
    CASE f = "home" /\ call.kind = "trending" -> Fulfilled(res.videos, <<>>)
      [] f = "home" /\ call.kind = "search" -> Fulfilled(res.videos, res.shorts)
      [] f = "shorts" /\ call.kind = "trending" ->
            Fulfilled(SelectSeq(res.videos, isShortVideo), <<>>)
      [] f = "shorts" /\ call.kind = "search" ->
            Fulfilled(SelectSeq(res.videos \o res.shorts, isShortVideo), <<>>)
      [] f = "deep" /\ call.kind = "channel" -> Fulfilled(Take(res.videos, 5), <<>>)
      [] OTHER -> Fulfilled(res.videos, <<>>)

\* The promise of call i once the content source has answered or failed:
\* capability(...).then(...).catch(...)
PromiseValue(f, w, cs, fl, i) ==
    IF i \in fl THEN Recover ELSE OnFulfilled(f, cs[i], Answer(World(w), cs[i]))

\* A variant that keeps the values in the order the promises settle.
StoreInArrivalOrder(vals, i, v) ==
    LET free == CHOOSE k \in 1..Len(vals) :
                    /\ vals[k].state = "pending"
                    /\ \A j \in 1..(k - 1) : vals[j].state # "pending"
    IN [vals EXCEPT ![free] = v]

\* Promise.all keeps each value at the index of its promise.
StoreResult(vals, i, v) == [vals EXCEPT ![i] = v]

\* Call i settles: the content source answers it or fails it.
Settle(i) ==
    /\ pc = "awaiting"
    /\ i \in 1..Len(calls)
    /\ i \notin settled
    /\ \E failed \in BOOLEAN :
         /\ fails' = IF failed THEN fails \union {i} ELSE fails
         /\ values' = StoreResult(values, i, PromiseValue(fn, world, calls, fails', i))
    /\ settled' = settled \union {i}
    /\ UNCHANGED <<outside, prev, fn, sources, world, pc, seed, calls, seedAfter,
                   candidates, clean, walk, backfilled, out, result>>

\* A variant that resumes as soon as one promise has settled.
AnySettled == settled # {}

\* await Promise.all(...) resumes when no promise is pending.
AllSettled == settled = 1..Len(calls)

AnyRejected == \E i \in 1..Len(values) : values[i].state = "rejected"

\* The calls are issued and the function suspends at the await.
Issue(cs, sd) ==
    /\ calls' = cs
    /\ seed' = sd
    /\ values' = [i \in 1..Len(cs) |-> Pending]
    /\ pc' = "awaiting"
    /\ UNCHANGED <<outside, prev, fn, sources, world, fails, settled, seedAfter, candidates, clean,
                   walk, backfilled, out, result>>

\* Promise.all rejected: the await throws and the async function rejects.
Throw ==
    /\ pc' = "done"
    /\ result' = "rejected"
    /\ UNCHANGED <<outside, prev, fn, sources, world, seed, calls, fails, settled, values, seedAfter,
                   candidates, clean, walk, backfilled, out>>

(***************************************************************************)
(* getXraiRecommendations.                                                  *)
(***************************************************************************)
TARGET_VIDEOS == 50

\* TRENDING_VIDEO_RATIO = 0.40, in percent.
TRENDING_VIDEO_RATIO == 40

TARGET_SHORTS == 20

Related == <<" ", "r", "e", "l", "a", "t", "e", "d">>

Videos == <<" ", "v", "i", "d", "e", "o", "s">>

DefaultSeeds ==
    <<<<"M", "u", "s", "i", "c">>, <<"G", "a", "m", "i", "n", "g">>, <<"V", "l", "o", "g">>>>

\* 1. Fetch Personalized Seeds
personalizedSeeds(src, sd) ==
    IF Len(src.watchHistory) > 0
    THEN LET historySample == Take(shuffleArray(src.watchHistory, sd, 1), 5)
         IN [k \in 1..Len(historySample) |->
                cleanTitleForSearch(historySample[k].title) \o Related]
    ELSE IF Len(src.subscribedChannels) > 0
    THEN LET subSample == Take(shuffleArray(src.subscribedChannels, sd, 2), 3)
         IN [k \in 1..Len(subSample) |-> subSample[k].name \o Videos]
    ELSE DefaultSeeds

TrendingCall == [kind |-> "trending", arg |-> <<>>, n |-> 1]

SearchCalls(queries, first) ==
    [k \in 1..Len(queries) |-> [kind |-> "search", arg |-> queries[k], n |-> first + k - 1]]

\* 2. Fetch Content: [trendingPromise, ...searchPromises]
HomeCalls(src, sd) == <<TrendingCall>> \o SearchCalls(personalizedSeeds(src, sd), 1)

InvokeHome ==
    /\ pc = "idle"
    /\ fn = "home"
    /\ \E sd \in Seeds : Issue(HomeCalls(sources, sd), sd)

\* new Set(hiddenVideos.map(v => v.id))
HomeSeenIds(src) == Range(src.hiddenVideos)

\* new Set(ngChannels.map(c => c.id))
NgChannelIds(src) == {src.ngChannels[k].id : k \in 1..Len(src.ngChannels)}

\* `${v.title} ${v.channelName}`.toLowerCase()
FullText(v) == ToLowerCase(v.title \o <<" ">> \o v.channelName)

\* ngKeywords.some(ng => fullText.includes(ng.toLowerCase()))
NgKeywordHit(v, ngKeywords) ==
    \E k \in 1..Len(ngKeywords) : Includes(FullText(v), ToLowerCase(ngKeywords[k]))

\* [...extractKeywords(v.title), ...extractKeywords(v.channelName)]
VideoKeywords(v) == extractKeywords(v.title) \o extractKeywords(v.channelName)

\* negativeKeywords.get(k) || 0
NegativeWeight(table, k) ==
    IF \E e \in table : e[1] = k THEN (CHOOSE e \in table : e[1] = k)[2] ELSE 0

RECURSIVE SumNegative(_, _)
SumNegative(table, ks) ==
    IF ks = <<>> THEN 0
    ELSE NegativeWeight(table, Head(ks)) + SumNegative(table, Tail(ks))

\* A variant that rejects from a sum of 2 on.
HomeAcceptsBelowTwo(v, seenIds, src) ==
    /\ v.id \notin seenIds
    /\ ~ NgKeywordHit(v, src.ngKeywords)
    /\ v.channelId \notin NgChannelIds(src)
    /\ ~ (SumNegative(src.negativeKeywords, VideoKeywords(v)) >= 2)

\* The predicate of filterAndDedupe, seenIds.add(v.id) apart.
HomeAccepts(v, seenIds, src) ==
    /\ v.id \notin seenIds
    /\ ~ NgKeywordHit(v, src.ngKeywords)
    /\ v.channelId \notin NgChannelIds(src)
    /\ ~ (SumNegative(src.negativeKeywords, VideoKeywords(v)) > 2)

\* A variant that never records an accepted id.
AddSeenNothing(seenIds, id) == seenIds

\* seenIds.add(v.id)
AddSeen(seenIds, id) == seenIds \union {id}

\* filterAndDedupe: the kept videos and seenIds as the call leaves it.  The
\* videos are filtered in order, the first half before the second.
RECURSIVE filterAndDedupe(_, _, _)
filterAndDedupe(videos, seenIds, src) ==
    IF videos = <<>> THEN [kept |-> <<>>, seenIds |-> seenIds]
    ELSE IF Len(videos) = 1
    THEN IF HomeAccepts(videos[1], seenIds, src)
         THEN [kept |-> videos, seenIds |-> AddSeen(seenIds, videos[1].id)]
         ELSE [kept |-> <<>>, seenIds |-> seenIds]
    ELSE LET mid == Len(videos) \div 2
             first == filterAndDedupe(SubSeq(videos, 1, mid), seenIds, src)
             rest == filterAndDedupe(SubSeq(videos, mid + 1, Len(videos)),
                                     first.seenIds, src)
         IN [kept |-> first.kept \o rest.kept, seenIds |-> rest.seenIds]

NotShort(v) == ~ isShortVideo(v)

\* 3. Separate ALL content into videos and shorts FIRST
HomePools(vals) ==
    LET trendingContent == vals[1].videos
        personalizedResults == SubSeq(vals, 2, Len(vals))
        fromSearch == Flat([k \in 1..Len(personalizedResults) |-> personalizedResults[k].videos])
        searchShorts == Flat([k \in 1..Len(personalizedResults) |-> personalizedResults[k].shorts])
    IN [trendingVideos |-> SelectSeq(trendingContent, NotShort),
        trendingShorts |-> SelectSeq(trendingContent, isShortVideo),
        personalizedVideos |-> SelectSeq(fromSearch, NotShort),
        personalizedShorts |-> searchShorts \o SelectSeq(fromSearch, isShortVideo)]

\* 4. Filter and Dedupe, the four calls sharing seenIds.
HomeClean(pools, src) ==
    LET tv == filterAndDedupe(pools.trendingVideos, HomeSeenIds(src), src)
        pv == filterAndDedupe(pools.personalizedVideos, tv.seenIds, src)
        ts == filterAndDedupe(pools.trendingShorts, pv.seenIds, src)
        ps == filterAndDedupe(pools.personalizedShorts, ts.seenIds, src)
    IN [trendingVideos |-> tv.kept, personalizedVideos |-> pv.kept,
        trendingShorts |-> ts.kept, personalizedShorts |-> ps.kept]

\* A variant that takes the ratio of the personalized share.
numTrendingSwapped == TARGET_VIDEOS - (TARGET_VIDEOS * TRENDING_VIDEO_RATIO) \div 100

\* Math.floor(TARGET_VIDEOS * TRENDING_VIDEO_RATIO)
numTrending == (TARGET_VIDEOS * TRENDING_VIDEO_RATIO) \div 100

numPersonalized == TARGET_VIDEOS - numTrending

\* 5. Mix Videos
MixVideos(cl, sd) ==
    shuffleArray(Take(shuffleArray(cl.trendingVideos, sd, 3), numTrending)
                 \o Take(shuffleArray(cl.personalizedVideos, sd, 4), numPersonalized),
                 sd, 5)

\* A variant that cuts each pool to the target before joining them.
MixShortsPerPool(cl, sd) ==
    shuffleArray(Take(shuffleArray(cl.trendingShorts, sd, 6), TARGET_SHORTS)
                   \o Take(shuffleArray(cl.personalizedShorts, sd, 7), TARGET_SHORTS),
                 sd, 8)

\* 6. Mix Shorts
MixShorts(cl, sd) ==
    Take(shuffleArray(shuffleArray(cl.trendingShorts, sd, 6)
                      \o shuffleArray(cl.personalizedShorts, sd, 7), sd, 8),
         TARGET_SHORTS)

HomeCandidates(pools) ==
    pools.trendingVideos \o pools.personalizedVideos
        \o pools.trendingShorts \o pools.personalizedShorts

\* Everything after the await: steps 3 to 6 and the value returned.
HomeRun(vals, src, sd) ==
    LET pools == HomePools(vals)
        cl == HomeClean(pools, src)
    IN [candidates |-> HomeCandidates(pools),
        clean |-> cl,
        walk |-> <<>>,
        backfilled |-> FALSE,
        out |-> [videos |-> MixVideos(cl, sd), shorts |-> MixShorts(cl, sd)]]

\* The function resumes with Promise.all's values and returns.
Return(run, sd) ==
    /\ seedAfter' = sd
    /\ LET ran == run
       IN /\ candidates' = ran.candidates
          /\ clean' = ran.clean
          /\ walk' = ran.walk
          /\ backfilled' = ran.backfilled
          /\ out' = ran.out
    /\ result' = "resolved"
    /\ pc' = "done"
    /\ UNCHANGED <<outside, prev, fn, sources, world, seed, calls, fails, settled, values>>

ResumeHome ==
    /\ pc = "awaiting"
    /\ fn = "home"
    /\ AllSettled
    /\ IF AnyRejected THEN Throw
       ELSE \E sd \in Seeds : Return(HomeRun(values, sources, sd), sd)

(***************************************************************************)
(* getXraiShorts.                                                           *)
(***************************************************************************)
\* Math.exp(-i / 10) in thousandths, i = 0..29.
ExpDecay ==
    <<1000, 905, 819, 741, 670, 607, 549, 497, 449, 407,
      368, 333, 301, 273, 247, 223, 202, 183, 165, 150,
      135, 122, 111, 100, 91, 82, 74, 67, 61, 55>>

\* weight * recencyDecay for the item at index i (0-based), in hundredths.
Decayed(weight, i) == (weight * ExpDecay[i + 1]) \div 1000

\* userVector.get(k) || 0; the vector is the Map's entries in insertion order.
VectorGet(vec, k) ==
    IF \E e \in 1..Len(vec) : vec[e].k = k
    THEN vec[CHOOSE e \in 1..Len(vec) : vec[e].k = k].w
    ELSE 0

\* userVector.set(k, (userVector.get(k) || 0) + weight)
VectorAdd(vec, k, weight) ==
    IF \E e \in 1..Len(vec) : vec[e].k = k
    THEN [e \in 1..Len(vec) |->
            IF vec[e].k = k THEN [k |-> k, w |-> vec[e].w + weight] ELSE vec[e]]
    ELSE Append(vec, [k |-> k, w |-> weight])

RECURSIVE AddKeywords(_, _, _)
AddKeywords(vec, ks, weight) ==
    IF ks = <<>> THEN vec
    ELSE AddKeywords(VectorAdd(vec, Head(ks), weight), Tail(ks), weight)

\* addWeight
addWeight(vec, text, weight) == AddKeywords(vec, extractKeywords(text), weight)

\* subscribedChannels.forEach(c => addWeight(c.name, 5.0))
RECURSIVE AddSubscriptions(_, _)
AddSubscriptions(vec, subs) ==
    IF subs = <<>> THEN vec
    ELSE AddSubscriptions(addWeight(vec, Head(subs).name, 500), Tail(subs))

\* history.forEach((v, i) => { addWeight(v.title, t * decay); addWeight(v.channelName, c * decay) })
RECURSIVE AddHistory(_, _, _, _, _)
AddHistory(vec, history, i, t, c) ==
    IF history = <<>> THEN vec
    ELSE IF Len(history) = 1
    THEN addWeight(addWeight(vec, history[1].title, Decayed(t, i)),
                   history[1].channelName, Decayed(c, i))
    ELSE LET mid == Len(history) \div 2
             first == AddHistory(vec, SubSeq(history, 1, mid), i, t, c)
         IN \* the first half is computed before the second half starts
            IF Len(first) >= Len(vec)
            THEN AddHistory(first, SubSeq(history, mid + 1, Len(history)), i + mid, t, c)
            ELSE first

\* User Profile Construction
UserVector(src) ==
    AddHistory(
        AddHistory(AddSubscriptions(<<>>, src.subscribedChannels),
                   Take(src.shortsHistory, 30), 0, 300, 400),
        Take(src.watchHistory, 20), 0, 150, 200)

\* floor(sqrt(x)) by bisection on lo..hi.
RECURSIVE SqrtBetween(_, _, _)
SqrtBetween(x, lo, hi) ==
    IF lo >= hi THEN lo
    ELSE LET mid == (lo + hi + 1) \div 2
         IN IF mid * mid <= x THEN SqrtBetween(x, mid, hi)
            ELSE SqrtBetween(x, lo, mid - 1)

ISqrt(x) == SqrtBetween(x, 0, IF x < 46340 THEN x ELSE 46340)

RECURSIVE SumSquares(_)
SumSquares(vec) ==
    IF vec = <<>> THEN 0 ELSE Head(vec).w * Head(vec).w + SumSquares(Tail(vec))

\* calculateMagnitude (./xrai): the Euclidean norm of the weights.
calculateMagnitude(vec) == ISqrt(SumSquares(vec))

\* Array.prototype.sort((a, b) => b.rank - a.rank) is stable and descending:
\* an item goes behind every item that ranks at least as high.
InsertByRank(sorted, e) ==
    LET before == SelectSeq(sorted, LAMBDA x : x.rank >= e.rank)
        after == SelectSeq(sorted, LAMBDA x : x.rank < e.rank)
    IN before \o <<e>> \o after

RECURSIVE SortFrom(_, _)
SortFrom(sorted, todo) ==
    IF todo = <<>> THEN sorted
    ELSE SortFrom(InsertByRank(sorted, Head(todo)), Tail(todo))

\* The items of ranked, a sequence of [rank, item], sorted by rank.
SortDescending(ranked) ==
    LET sorted == SortFrom(<<>>, ranked)
    IN [k \in 1..Len(sorted) |-> sorted[k].item]

ShortsTagSuffix == <<" ">> \o ShortsTag

DefaultShortsSeeds ==
    <<<<"F", "u", "n", "n", "y">> \o ShortsTagSuffix,
      <<"T", "r", "e", "n", "d", "i", "n", "g">> \o ShortsTagSuffix>>

\* Generate seeds from top keywords in User Vector
ShortsSeeds(vec) ==
    LET entries == [e \in 1..Len(vec) |-> [rank |-> vec[e].w, item |-> vec[e]]]
        topKeywords == Take(SortDescending(entries), 4)
    IN IF Len(topKeywords) > 0
       THEN [k \in 1..Len(topKeywords) |-> topKeywords[k].k \o ShortsTagSuffix]
       ELSE DefaultShortsSeeds

\* A variant that searches every seed.
ShortsCallsUnlimited(src) ==
    <<TrendingCall>> \o SearchCalls(ShortsSeeds(UserVector(src)), 1)

\* [popularPromise, ...candidatePromises] over limitedSeeds = seeds.slice(0, 3)
ShortsCalls(src) ==
    <<TrendingCall>> \o SearchCalls(Take(ShortsSeeds(UserVector(src)), 3), 1)

InvokeShorts ==
    /\ pc = "idle"
    /\ fn = "shorts"
    /\ Issue(ShortsCalls(sources), 0)

VideoIds(videos) == {videos[k].id : k \in 1..Len(videos)}

\* A variant whose Set lives at module scope and keeps the ids of the
\* feed it returned before.
AllSeenIdsKept(src) ==
    VideoIds(src.shortsHistory) \union Range(src.hiddenVideos) \union Range(src.seenIds)
        \union (IF prev.first = <<>> THEN {} ELSE VideoIds(prev.first[1].out.videos))

\* allSeenIds
AllSeenIds(src) ==
    VideoIds(src.shortsHistory) \union Range(src.hiddenVideos) \union Range(src.seenIds)

\* Hard Filters
PassesHardFilters(v, src) ==
    /\ v.id \notin AllSeenIds(src)
    /\ v.channelId \notin NgChannelIds(src)
    /\ ~ NgKeywordHit(v, src.ngKeywords)

\* uniqueCandidates, as its values in insertion order.
RECURSIVE UniqueCandidates(_, _, _)
UniqueCandidates(cands, src, have) ==
    IF cands = <<>> THEN <<>>
    ELSE IF PassesHardFilters(Head(cands), src) /\ Head(cands).id \notin have
    THEN <<Head(cands)>> \o UniqueCandidates(Tail(cands), src, have \union {Head(cands).id})
    ELSE UniqueCandidates(Tail(cands), src, have)

RECURSIVE DotProduct(_, _)
DotProduct(vec, ks) ==
    IF ks = <<>> THEN 0 ELSE VectorGet(vec, Head(ks)) + DotProduct(vec, Tail(ks))

\* 1. Content Match: (dotProduct / (userMag * Math.sqrt(n))) * 100, in hundredths.
ContentMatch(vec, userMag, ks) ==
    IF userMag > 0 /\ Len(ks) > 0
    THEN (((DotProduct(vec, ks) * 10000) \div userMag) * 100) \div ISqrt(10000 * Len(ks))
    ELSE 0

\* 2. Channel Affinity
ChannelAffinity(v, src) ==
    IF \E k \in 1..Len(src.subscribedChannels) : src.subscribedChannels[k].id = v.channelId
    THEN 5000 ELSE 0

\* 4. Random Noise: Math.random() * 15 for the k-th candidate scored.
Noise(sd, k) == Rand(sd, 9, k, 1500)

\* scoreVideo, in hundredths.
scoreVideo(v, src, vec, userMag, noise) ==
    ContentMatch(vec, userMag, VideoKeywords(v))
        + ChannelAffinity(v, src)
        - SumNegative(src.negativeKeywords, VideoKeywords(v)) * 2000
        + noise

\* scoredCandidates after the sort.
ScoredCandidates(unique, src, sd) ==
    LET vec == UserVector(src)
        userMag == calculateMagnitude(vec)
        scored == [k \in 1..Len(unique) |->
                     [video |-> unique[k],
                      score |-> scoreVideo(unique[k], src, vec, userMag, Noise(sd, k))]]
    IN SortDescending([k \in 1..Len(scored) |-> [rank |-> scored[k].score, item |-> scored[k]]])

\* channelCooldown.set(cId, 3)
COOLDOWN == 3

\* if (item.score < -50) continue, in hundredths.
SCORE_FLOOR == -5000

\* channelCooldown.get(cId) || 0; the Map is the set of its entries.
CooldownOf(cd, cId) ==
    IF \E e \in cd : e[1] = cId THEN (CHOOSE e \in cd : e[1] = cId)[2] ELSE 0

\* A variant that decreases the others but never starts a cooldown.
AdmitWithoutCooldown(cd, cId) ==
    {<<e[1], IF e[2] > 0 THEN e[2] - 1 ELSE e[2]>> : e \in {x \in cd : x[1] # cId}}

\* channelCooldown.set(cId, 3) and the loop that decreases the others.
Admit(cd, cId) ==
    {<<cId, COOLDOWN>>}
        \union {<<e[1], IF e[2] > 0 THEN e[2] - 1 ELSE e[2]>> : e \in {x \in cd : x[1] # cId}}

\* A variant in which a skipped candidate uses up one turn of its channel's
\* cooldown.
WalkStepCounting(item, cd) ==
    LET cId == item.video.channelId
        dropped == item.score < SCORE_FLOOR
        admitted == ~ dropped /\ CooldownOf(cd, cId) = 0
    IN [video |-> item.video, score |-> item.score, dropped |-> dropped,
        admitted |-> admitted, before |-> cd,
        after |-> IF admitted THEN Admit(cd, cId)
                  ELSE {<<e[1], IF e[1] = cId /\ e[2] > 0 THEN e[2] - 1 ELSE e[2]>> :
                           e \in cd}]

\* One iteration of for (const item of scoredCandidates).
WalkStep(item, cd) ==
    LET cId == item.video.channelId
        dropped == item.score < SCORE_FLOOR
        admitted == ~ dropped /\ CooldownOf(cd, cId) = 0
    IN [video |-> item.video, score |-> item.score, dropped |-> dropped,
        admitted |-> admitted, before |-> cd,
        after |-> IF admitted THEN Admit(cd, cId) ELSE cd]

\* Apply Post-Ranking Rules (Diversity): the steps of the loop, in order.
RECURSIVE DiversityWalk(_, _)
DiversityWalk(items, cd) ==
    IF items = <<>> THEN <<>>
    ELSE LET step == WalkStep(Head(items), cd)
         IN <<step>> \o DiversityWalk(Tail(items), step.after)

IsAdmitted(step) == step.admitted

\* finalFeed when the loop ends.
Admitted(steps) ==
    LET kept == SelectSeq(steps, IsAdmitted)
    IN [k \in 1..Len(kept) |-> kept[k].video]

FEED_FLOOR == 5

FALLBACK_LIMIT == 10

\* for (const fb of fallbacks) if (!existingIds.has(fb.id)) ...
RECURSIVE AppendFallbacks(_, _, _)
AppendFallbacks(feed, fallbacks, existingIds) ==
    IF fallbacks = <<>> THEN feed
    ELSE IF Head(fallbacks).id \notin existingIds
    THEN AppendFallbacks(Append(feed, Head(fallbacks)), Tail(fallbacks),
                         existingIds \union {Head(fallbacks).id})
    ELSE AppendFallbacks(feed, Tail(fallbacks), existingIds)

\* A variant that backfills from the trending pool as it came.
FallbacksUnfiltered(popularShortsRaw, src) == Take(popularShortsRaw, FALLBACK_LIMIT)

\* popularShortsRaw.filter(v => !allSeenIds.has(v.id)).slice(0, 10)
Fallbacks(popularShortsRaw, src) ==
    Take(SelectSeq(popularShortsRaw, LAMBDA v : v.id \notin AllSeenIds(src)),
         FALLBACK_LIMIT)

\* Fallback if filtering removed too many
NeedsFallback(feed, popularShortsRaw) ==
    Len(feed) < FEED_FLOOR /\ Len(popularShortsRaw) > 0

ShortsCandidates(vals) == Flat([k \in 1..Len(vals) |-> vals[k].videos])

\* Everything after the await: filtering, ranking, diversity and fallback.
ShortsRun(vals, src, sd) ==
    LET popularShortsRaw == vals[1].videos
        cands == ShortsCandidates(vals)
        unique == UniqueCandidates(cands, src, {})
        steps == DiversityWalk(ScoredCandidates(unique, src, sd), {})
        finalFeed == Admitted(steps)
        fallback == NeedsFallback(finalFeed, popularShortsRaw)
    IN [candidates |-> cands,
        clean |-> [NoClean EXCEPT !.trendingShorts = unique],
        walk |-> steps,
        backfilled |-> fallback,
        out |-> [videos |->
                   IF fallback
                   THEN AppendFallbacks(finalFeed, Fallbacks(popularShortsRaw, src),
                                        VideoIds(finalFeed))
                   ELSE finalFeed,
                 shorts |-> <<>>]]

ResumeShorts ==
    /\ pc = "awaiting"
    /\ fn = "shorts"
    /\ AllSettled
    /\ IF AnyRejected THEN Throw
       ELSE \E sd \in Seeds : Return(ShortsRun(values, sources, sd), sd)

(***************************************************************************)
(* getDeeplyAnalyzedRecommendations (part_001).                             *)
(***************************************************************************)
\* NOISE_BLOCK_KEYWORDS: its Latin-script entries; the Japanese ones need
\* characters no modelled title has.
NOISE_BLOCK_KEYWORDS ==
    <<<<"N", "e", "w", "s">>, <<"N", "H", "K">>, <<"F", "N", "N">>,
      <<"T", "B", "S">>, <<"A", "N", "N">>>>

Xerox == <<"x", "e", "r", "o", "x">>

\* source.ngChannels?.includes(video.channelId)
DeepNgChannel(v, src) == v.channelId \in Range(src.ngChannels)

\* A variant that lets the allow-listed channel past the noise list too.
isValidRecommendationExempting(v, src) ==
    LET fullText == ToLowerCase(v.title) \o <<" ">> \o ToLowerCase(v.channelName)
    IN \/ v.channelId = XEROX_CHANNEL /\ ~ DeepNgChannel(v, src)
                                       /\ ~ \E k \in 1..Len(src.ngKeywords) :
                                                Includes(fullText, ToLowerCase(src.ngKeywords[k]))
       \/ /\ ~ Includes(fullText, Xerox)
          /\ ~ \E k \in 1..Len(NOISE_BLOCK_KEYWORDS) :
                   Includes(fullText, ToLowerCase(NOISE_BLOCK_KEYWORDS[k]))
          /\ ~ \E k \in 1..Len(src.ngKeywords) :
                   Includes(fullText, ToLowerCase(src.ngKeywords[k]))
          /\ ~ DeepNgChannel(v, src)

isValidRecommendation(v, src) ==
    LET fullText == ToLowerCase(v.title) \o <<" ">> \o ToLowerCase(v.channelName)
    IN /\ ~ (Includes(fullText, Xerox) /\ v.channelId # XEROX_CHANNEL)
       /\ ~ \E k \in 1..Len(NOISE_BLOCK_KEYWORDS) :
                Includes(fullText, ToLowerCase(NOISE_BLOCK_KEYWORDS[k]))
       /\ ~ \E k \in 1..Len(src.ngKeywords) :
                Includes(fullText, ToLowerCase(src.ngKeywords[k]))
       /\ ~ DeepNgChannel(v, src)

\* Strategy 1: targetIndices (0-based), a Set in insertion order.
TargetIndices(src, sd) ==
    LET historyDepth == IF Len(src.watchHistory) < 5 THEN Len(src.watchHistory) ELSE 5
        extra == Rand(sd, 11, 1, historyDepth)
    IN IF historyDepth > 1 /\ extra # 0 THEN <<0, extra>> ELSE <<0>>

DetailsCalls(src, sd) ==
    IF Len(src.watchHistory) > 0
    THEN LET targets == SelectSeq(TargetIndices(src, sd),
                                  LAMBDA index : src.watchHistory[index + 1].id # 0)
         IN [k \in 1..Len(targets) |->
               [kind |-> "details", arg |-> src.watchHistory[targets[k] + 1].id, n |-> k]]
    ELSE <<>>

\* Strategy 2: one search for a random entry of the search history.
InterestCalls(src, sd) ==
    IF Len(src.searchHistory) > 0
    THEN SearchCalls(<<src.searchHistory[1 + Rand(sd, 12, 1, Len(src.searchHistory))]>>, 1)
    ELSE <<>>

\* Strategy 3: one search for a random preferred genre.
GenreCalls(src, sd, first) ==
    IF Len(src.preferredGenres) > 0
    THEN SearchCalls(<<src.preferredGenres[1 + Rand(sd, 13, 1, Len(src.preferredGenres))]>>,
                     first)
    ELSE <<>>

\* A variant that asks every subscription for its latest videos.
ChannelCallsAll(src, sd) ==
    IF Len(src.subscribedChannels) > 0
    THEN LET randomSubs == shuffleArray(src.subscribedChannels, sd, 14)
         IN [k \in 1..Len(randomSubs) |->
               [kind |-> "channel", arg |-> randomSubs[k].id, n |-> k]]
    ELSE <<>>

\* Strategy 3: the latest videos of three random subscriptions.
ChannelCalls(src, sd) ==
    IF Len(src.subscribedChannels) > 0
    THEN LET randomSubs == Take(shuffleArray(src.subscribedChannels, sd, 14), 3)
         IN [k \in 1..Len(randomSubs) |->
               [kind |-> "channel", arg |-> randomSubs[k].id, n |-> k]]
    ELSE <<>>

\* A variant that asks for trending on every page.
WantsTrendingAlways(src) == TRUE

\* Strategy 4: if (watchHistory.length < 5 || page === 1)
WantsTrending(src) == Len(src.watchHistory) < 5 \/ src.page = 1

PopularityCalls(src) == IF WantsTrending(src) THEN <<TrendingCall>> ELSE <<>>

\* promises, in the order they are pushed.
DeepCalls(src, sd) ==
    LET interests == InterestCalls(src, sd)
    IN DetailsCalls(src, sd) \o interests \o GenreCalls(src, sd, Len(interests) + 1)
         \o ChannelCalls(src, sd) \o PopularityCalls(src)

InvokeDeep ==
    /\ pc = "idle"
    /\ fn = "deep"
    /\ \E sd \in Seeds : Issue(DeepCalls(sources, sd), sd)

\* new Set(watchHistory.slice(0, 10).map(v => v.id))
RecentHistoryIds(src) == VideoIds(Take(src.watchHistory, 10))

\* The loop over the shuffled candidates.
RECURSIVE UniqueVideos(_, _, _)
UniqueVideos(cands, src, seenIds) ==
    IF cands = <<>> THEN <<>>
    ELSE LET video == Head(cands)
         IN IF /\ video.id # 0
               /\ video.id \notin seenIds
               /\ video.id \notin RecentHistoryIds(src)
               /\ isValidRecommendation(video, src)
            THEN <<video>> \o UniqueVideos(Tail(cands), src, AddSeen(seenIds, video.id))
            ELSE UniqueVideos(Tail(cands), src, seenIds)

\* results.forEach(videos => candidates.push(...videos))
DeepCandidates(vals) == Flat([k \in 1..Len(vals) |-> vals[k].videos])

\* Everything after the await: shuffle, filter and deduplicate.
DeepRun(vals, src, sd) ==
    LET shuffled == shuffleArray(DeepCandidates(vals), sd, 15)
        uniqueVideos == UniqueVideos(shuffled, src, {})
    IN [candidates |-> shuffled,
        clean |-> [NoClean EXCEPT !.personalizedVideos = uniqueVideos],
        walk |-> <<>>,
        backfilled |-> FALSE,
        out |-> [videos |-> uniqueVideos, shorts |-> <<>>]]

ResumeDeep ==
    /\ pc = "awaiting"
    /\ fn = "deep"
    /\ AllSettled
    /\ IF AnyRejected THEN Throw
       ELSE \E sd \in Seeds : Return(DeepRun(values, sources, sd), sd)

\* The calls an invocation issues and what it makes of their values.
EngineCalls(f, src, sd) ==
    CASE f = "home" -> HomeCalls(src, sd)
      [] f = "shorts" -> ShortsCalls(src)
      [] f = "deep" -> DeepCalls(src, sd)

EngineRun(f, vals, src, sd) ==
    CASE f = "home" -> HomeRun(vals, src, sd)
      [] f = "shorts" -> ShortsRun(vals, src, sd)
      [] f = "deep" -> DeepRun(vals, src, sd)

Next ==
    \/ InvokeHome
    \/ \E i \in 1..Len(calls) : Settle(i)
    \/ ResumeHome
    \/ InvokeShorts
    \/ ResumeShorts
    \/ InvokeDeep
    \/ ResumeDeep

Spec == Init /\ [][Next]_vars

(***************************************************************************)
(* getXraiRecommendations against the large content source, for a caller    *)
(* with no history and no subscription (the three default seeds).           *)
(***************************************************************************)
MixWorlds ==
    {[bulk |-> TRUE, trending |-> t, search |-> p] : t \in {55, 70}, p \in {25, 40}}

InitMix ==
    /\ fn = "home"
    /\ sources \in {MkSources(0, 0, 0, 0, 0, b, <<>>, 1) : b \in {NoBlocks, Blocks}}
    /\ world \in MixWorlds
    /\ Idle

NextMix ==
    \/ InvokeHome
    \/ \E i \in 1..Len(calls) : Settle(i)
    \/ ResumeHome

SpecMix == InitMix /\ [][NextMix]_vars

(***************************************************************************)
(* Several invocations in a row.  The engine functions are module-level     *)
(* arrow functions over const data: every Set, Map and array they use is    *)
(* created inside the call, so a new call starts from fresh locals.  The    *)
(* caller remembers the first finished invocation, to compare later ones.   *)
(***************************************************************************)
MaxRuns == 3

\* What the caller saw of the invocation that just finished.
Finishing ==
    [fn |-> fn, sources |-> sources, world |-> world, fails |-> fails,
     seed |-> seed, seedAfter |-> seedAfter, calls |-> calls, walk |-> walk,
     out |-> out, result |-> result]

AgainInputs ==
    {[fn |-> "home", sources |-> MkSources(1, 0, 0, 0, 0, Blocks, <<>>, 1)],
     [fn |-> "shorts", sources |-> MkSources(0, 0, 1, 0, 0, Blocks, <<>>, 1)],
     [fn |-> "deep", sources |-> MkSources(0, 0, 0, 0, 0, DeepBlocks, <<>>, 1)]}

\* The caller invokes the engine once more.
Again ==
    /\ pc = "done"
    /\ prev.runs + 1 < MaxRuns
    /\ prev' = [runs |-> prev.runs + 1,
                first |-> IF prev.first = <<>> THEN <<Finishing>> ELSE prev.first]
    /\ \E input \in AgainInputs : fn' = input.fn /\ sources' = input.sources
    /\ pc' = "idle"
    /\ seed' = 0
    /\ calls' = <<>>
    /\ fails' = {}
    /\ settled' = {}
    /\ values' = <<>>
    /\ seedAfter' = 0
    /\ candidates' = <<>>
    /\ clean' = NoClean
    /\ walk' = <<>>
    /\ backfilled' = FALSE
    /\ out' = NoOut
    /\ result' = "pending"
    /\ UNCHANGED <<outside, world>>

InitAgain ==
    /\ world = [bulk |-> FALSE, trending |-> 0, search |-> 0]
    /\ \E input \in AgainInputs : fn = input.fn /\ sources = input.sources
    /\ Idle

NextAgain == Next \/ Again

SpecAgain == InitAgain /\ [][NextAgain]_vars

(***************************************************************************)
(* parseDuration (part_003) and parseDurationToSeconds (part_001).          *)
(* A JavaScript number is [nan, n]: NaN, or the integer n.                  *)
(***************************************************************************)
Digits == <<"0", "1", "2", "3", "4", "5", "6", "7", "8", "9">>

IsDigit(c) == \E d \in 1..Len(Digits) : Digits[d] = c

DigitValue(c) == (CHOOSE d \in 1..Len(Digits) : Digits[d] = c) - 1

Num(n) == [nan |-> FALSE, n |-> n]

NaN == [nan |-> TRUE, n |-> 0]

\* a + b and a * k on JavaScript numbers: NaN propagates.
Plus(a, b) == IF a.nan \/ b.nan THEN NaN ELSE Num(a.n + b.n)

Times(a, k) == IF a.nan THEN NaN ELSE Num(a.n * k)

\* The value of a string of digits, base 10.
RECURSIVE DigitsValue(_)
DigitsValue(ds) ==
    IF ds = <<>> THEN 0
    ELSE 10 * DigitsValue(SubSeq(ds, 1, Len(ds) - 1)) + DigitValue(ds[Len(ds)])

\* How many digits a string starts with: what \d+ takes.
RECURSIVE LeadingDigits(_)
LeadingDigits(s) ==
    IF s # <<>> /\ IsDigit(Head(s)) THEN 1 + LeadingDigits(Tail(s)) ELSE 0

\* parseInt(p, 10): leading blanks, a sign, then digits; NaN without a digit.
parseInt(p) ==
    LET t == TrimLeft(p)
        signed == t # <<>> /\ Head(t) \in {"-", "+"}
        body == IF signed THEN Tail(t) ELSE t
        n == LeadingDigits(body)
    IN IF n = 0 THEN NaN
       ELSE IF signed /\ Head(t) = "-" THEN Num(0 - DigitsValue(Take(body, n)))
       ELSE Num(DigitsValue(Take(body, n)))

\* (?:(\d+)U)? at the front of s, and parseInt(group || '0', 10).
Component(s, unit) ==
    LET n == LeadingDigits(s)
    IN IF n > 0 /\ Len(s) > n /\ s[n + 1] = unit
       THEN [value |-> DigitsValue(Take(s, n)), rest |-> SubSeq(s, n + 2, Len(s))]
       ELSE [value |-> 0, rest |-> s]

\* Where /PT.../ first matches in iso, 0 if nowhere: every group is optional,
\* so the match is at the leftmost "PT".
MatchIndex(iso) ==
    LET hits == {i \in 1..(Len(iso) - 1) : iso[i] = "P" /\ iso[i + 1] = "T"}
    IN IF hits = {} THEN 0 ELSE CHOOSE i \in hits : \A j \in hits : i <= j

\* A variant that weighs hours like minutes.
HmsAsMinutes(h, m, s) == h * 60 + m * 60 + s

\* h * 3600 + m * 60 + s
Hms(h, m, s) == h * 3600 + m * 60 + s

\* The groups of the match, as seconds.
MatchSeconds(iso) ==
    LET h == Component(SubSeq(iso, MatchIndex(iso) + 2, Len(iso)), "H")
        m == Component(h.rest, "M")
        s == Component(m.rest, "S")
    IN Hms(h.value, m.value, s.value)

\* text.split(':').map(p => parseInt(p, 10)), then by the number of parts.
TextSeconds(text) ==
    LET split == SplitOn(text, {":"}, <<>>)
        parts == [k \in 1..Len(split) |-> parseInt(split[k])]
    IN IF Len(parts) = 3
       THEN Plus(Plus(Times(parts[1], 3600), Times(parts[2], 60)), parts[3])
       ELSE IF Len(parts) = 2 THEN Plus(Times(parts[1], 60), parts[2])
       ELSE IF Len(parts) = 1 THEN parts[1]
       ELSE Num(0)

\* part_003
parseDuration(iso, text) ==
    IF iso # <<>> /\ MatchIndex(iso) > 0 THEN Num(MatchSeconds(iso))
    ELSE IF text # <<>> THEN TextSeconds(text)
    ELSE Num(0)

\* part_001
parseDurationToSeconds(isoDuration) ==
    IF isoDuration = <<>> THEN Num(0)
    ELSE IF MatchIndex(isoDuration) = 0 THEN Num(0)
    ELSE Num(MatchSeconds(isoDuration))

\* The duration tokens and texts tried.
IsoInputs ==
    {<<>>, <<"P", "T", "1", "H", "2", "M", "3", "S">>,
     <<"P", "T", "2", "M", "3", "0", "S">>, <<"P", "T", "4", "5", "S">>,
     <<"P", "T", "1", "H">>, <<"P", "T", "1", "0", "M">>, <<"P", "T">>,
     <<"P", "1", "D">>, <<"a", "b", "c">>,
     <<"P", "T", "1", "H", "5", "S">>, <<"x", "P", "T", "3", "M">>}

TextInputs ==
    {<<>>, <<"2", ":", "3", "0">>, <<"1", ":", "0", "2", ":", "0", "3">>,
     <<"4", "5">>, <<"a", "b", "c">>, <<"-", "5">>,
     <<"1", ":", "2", ":", "3", ":", "4">>, <<"1", ":", "x", "x">>,
     <<":", "3", "0">>, <<"0", ":", "5", "9">>, <<"1", "2", "a">>,
     <<"-", "1", ":", "3", "0">>}

InitDuration ==
    /\ \/ fn = "parseDuration"
          /\ sources \in {[iso |-> i, text |-> t] : i \in IsoInputs, t \in TextInputs}
       \/ fn = "parseDurationToSeconds"
          /\ sources \in {[iso |-> i, text |-> <<>>] : i \in IsoInputs}
    /\ world = [bulk |-> FALSE, trending |-> 0, search |-> 0]
    /\ Idle

Returns(value) ==
    /\ result' = value
    /\ pc' = "done"
    /\ UNCHANGED <<outside, prev, fn, sources, world, seed, calls, fails, settled, values,
                   seedAfter, candidates, clean, walk, backfilled, out>>

CallParseDuration ==
    /\ pc = "idle"
    /\ fn = "parseDuration"
    /\ Returns(parseDuration(sources.iso, sources.text))

CallParseDurationToSeconds ==
    /\ pc = "idle"
    /\ fn = "parseDurationToSeconds"
    /\ Returns(parseDurationToSeconds(sources.iso))

NextDuration == CallParseDuration \/ CallParseDurationToSeconds

SpecDuration == InitDuration /\ [][NextDuration]_vars

(***************************************************************************)
(* The fetch phase alone, for callers with long histories and many          *)
(* subscriptions: the calls are issued and settle.                          *)
(***************************************************************************)
CallsInputs ==
    {[fn |-> "home", sources |-> MkSources(7, 0, 0, 0, 0, NoBlocks, <<>>, 1)],
     [fn |-> "home", sources |-> MkSources(0, 0, 4, 0, 0, NoBlocks, <<>>, 1)],
     [fn |-> "home", sources |-> MkSources(0, 0, 0, 0, 0, NoBlocks, <<>>, 1)],
     [fn |-> "shorts", sources |-> MkSources(1, 1, 4, 0, 0, NoBlocks, <<>>, 1)],
     [fn |-> "deep", sources |-> MkSources(7, 0, 4, 0, 0, DeepBlocks, <<>>, 2)],
     [fn |-> "deep", sources |-> MkSources(7, 0, 0, 2, 2, DeepBlocks, <<>>, 1)]}

InitCalls ==
    /\ world = [bulk |-> FALSE, trending |-> 0, search |-> 0]
    /\ \E input \in CallsInputs : fn = input.fn /\ sources = input.sources
    /\ Idle

NextCalls ==
    \/ InvokeHome
    \/ InvokeShorts
    \/ InvokeDeep
    \/ \E i \in 1..Len(calls) : Settle(i)

SpecCalls == InitCalls /\ [][NextCalls]_vars

(***************************************************************************)
(* The profile construction of getXraiShorts, one addWeight call at a time, *)
(* for callers whose histories are longer than the slices taken of them.    *)
(***************************************************************************)
\* n copies of a video.
Repeat(v, n) == [k \in 1..n |-> v]

VectorSources ==
    {[MkSources(0, 0, s, 0, 0, NoBlocks, <<>>, 1)
        EXCEPT !.shortsHistory = sh, !.watchHistory = h] :
        s \in {0, 2},
        sh \in {<<>>, ShortsHistoryList, Repeat(S19, 30) \o <<S16, S16>>},
        h \in {<<>>, Take(HistoryList, 3), Repeat(V1, 20) \o <<V2, V5>>}}

\* The two addWeight calls made for each item of a history.
HistorySteps(history, t, c) ==
    [n \in 1..(2 * Len(history)) |->
        LET i == (n - 1) \div 2
        IN IF n % 2 = 1
           THEN [text |-> history[i + 1].title, weight |-> Decayed(t, i)]
           ELSE [text |-> history[i + 1].channelName, weight |-> Decayed(c, i)]]

\* A variant that takes 20 shorts-history and 30 watch-history items.
WeightStepsSwapped(src) ==
    [n \in 1..Len(src.subscribedChannels) |->
        [text |-> src.subscribedChannels[n].name, weight |-> 500]]
      \o HistorySteps(Take(src.shortsHistory, 20), 300, 400)
      \o HistorySteps(Take(src.watchHistory, 30), 150, 200)

\* The addWeight calls of the construction, in the order they are made.
WeightSteps(src) ==
    [n \in 1..Len(src.subscribedChannels) |->
        [text |-> src.subscribedChannels[n].name, weight |-> 500]]
      \o HistorySteps(Take(src.shortsHistory, 30), 300, 400)
      \o HistorySteps(Take(src.watchHistory, 20), 150, 200)

InitVector ==
    /\ fn = "shorts"
    /\ sources \in VectorSources
    /\ world = [bulk |-> FALSE, trending |-> 0, search |-> 0]
    /\ Idle

\* The next addWeight call.
AddWeightStep ==
    /\ pc = "idle"
    /\ fn = "shorts"
    /\ weighed < Len(WeightSteps(sources))
    /\ LET st == WeightSteps(sources)[weighed + 1]
       IN userVector' = addWeight(userVector, st.text, st.weight)
    /\ weighed' = weighed + 1
    /\ UNCHANGED <<engine, home, prefs>>

NextVector == AddWeightStep

SpecVector == InitVector /\ [][NextVector]_vars

(***************************************************************************)
(* isValidRecommendation of the deep feed on its own, for candidates of     *)
(* ordinary channels, a blocked channel and the allow-listed channel.       *)
(***************************************************************************)
ValidTitles ==
    {Cat, Fox, <<"N", "e", "w", "s">>, <<"N", "E", "W", "S", " ">> \o Cat,
     Cat \o <<" ">> \o <<"n", "h", "k">>, <<"T", "b", "s">>,
     <<"X", "e", "r", "o", "x", " ">> \o Cat, <<"X", "E", "R", "O", "X">>,
     <<"D", "o", "g">>, <<"N", "e", "w">>}

ValidChannels ==
    {[id |-> "c1", name |-> ChannelNames["c1"]],
     [id |-> "c3", name |-> ChannelNames["c3"]],
     [id |-> XEROX_CHANNEL, name |-> ChannelNames[XEROX_CHANNEL]],
     [id |-> "c6", name |-> <<"A", "n", "n">>]}

InitValid ==
    /\ fn = "isValidRecommendation"
    /\ sources \in
         {[video |-> [id |-> 1, channelId |-> c.id, title |-> t, channelName |-> c.name,
                      seconds |-> 300],
           source |-> MkSources(0, 0, 0, 0, 0, b, <<>>, 1)] :
             t \in ValidTitles, c \in ValidChannels, b \in {NoBlocks, DeepBlocks}}
    /\ world = [bulk |-> FALSE, trending |-> 0, search |-> 0]
    /\ Idle

CallIsValidRecommendation ==
    /\ pc = "idle"
    /\ fn = "isValidRecommendation"
    /\ Returns(isValidRecommendation(sources.video, sources.source))

NextValid == CallIsValidRecommendation

SpecValid == InitValid /\ [][NextValid]_vars

(***************************************************************************)
(* HomePage (part_003).  The component's state and ref are the fields of    *)
(* home; loads holds the loadRecommendations calls suspended at their       *)
(* await.  An effect run after the first is the re-run that a change of     *)
(* the history, the subscriptions or the preferences causes: the callback   *)
(* loadRecommendations is rebuilt and the effect depends on it.  Nothing    *)
(* cancels a call in flight.                                                *)
(***************************************************************************)
MaxEffects == 2

MaxScroll == 2

\* What getDeeplyAnalyzedRecommendations may resolve with: lists without a
\* repeated id that overlap one another; the last reports video 1 as a short.
RawResults ==
    {<<V1, S11, V2>>, <<V2, V4, S11, S13>>, <<V6, S13, V1>>, <<>>,
     <<[V1 EXCEPT !.seconds = 40], V5>>}

\* useState initial values and the empty ref, before the first effect.
HomeMounted ==
    [mounted |-> TRUE, feed |-> <<>>, shortsFeed |-> <<>>, isLoading |-> TRUE,
     error |-> "null", page |-> 1, isFetchingMore |-> FALSE, seenIds |-> {},
     loads |-> {}, effects |-> 0]

\* for (const v of rawVideos): skip what the ref has, remember and sort the rest.
RECURSIVE Sift(_, _)
Sift(rawVideos, acc) ==
    IF rawVideos = <<>> THEN acc
    ELSE LET v == Head(rawVideos)
         IN IF v.id \in acc.seenIds THEN Sift(Tail(rawVideos), acc)
            ELSE Sift(Tail(rawVideos),
                      [seenIds |-> acc.seenIds \union {v.id},
                       newVideos |-> IF isShortVideo(v) THEN acc.newVideos
                                     ELSE Append(acc.newVideos, v),
                       newShorts |-> IF isShortVideo(v) THEN Append(acc.newShorts, v)
                                     ELSE acc.newShorts])

\* A variant that checks the new videos against one another only.
SplitNewIgnoringRef(rawVideos, seenIds) ==
    LET acc == Sift(rawVideos, [seenIds |-> {}, newVideos |-> <<>>, newShorts |-> <<>>])
    IN [acc EXCEPT !.seenIds = @ \union seenIds]

\* The duplicate check and the sorting into videos and shorts.
SplitNew(rawVideos, seenIds) ==
    Sift(rawVideos, [seenIds |-> seenIds, newVideos |-> <<>>, newShorts |-> <<>>])

\* loadRecommendations(pageNum) up to its await.
StartLoad(h, pageNum) ==
    [h EXCEPT !.isLoading = IF pageNum = 1 THEN TRUE ELSE @,
              !.isFetchingMore = IF pageNum = 1 THEN @ ELSE TRUE,
              !.loads = @ \union {[pageNum |-> pageNum, effect |-> h.effects]}]

\* The initial-load effect: on mount, and again when its inputs change.
RunEffect ==
    /\ home.mounted
    /\ home.effects < MaxEffects
    /\ home' = StartLoad([home EXCEPT !.page = 1, !.feed = <<>>, !.shortsFeed = <<>>,
                                      !.seenIds = {}, !.error = "null",
                                      !.effects = @ + 1], 1)
    /\ UNCHANGED <<engine, userVector, weighed, prefs>>

\* loadMore, called by the infinite scroll.
LoadMore ==
    /\ home.mounted
    /\ home.effects > 0
    /\ ~ home.isFetchingMore
    /\ ~ home.isLoading
    /\ home.page < MaxScroll
    /\ home' = StartLoad([home EXCEPT !.page = @ + 1], home.page + 1)
    /\ UNCHANGED <<engine, userVector, weighed, prefs>>

\* The try block after the await, and finally.
LoadResolves ==
    /\ home.mounted
    /\ \E load \in home.loads, rawVideos \in RawResults :
         LET new == SplitNew(rawVideos, home.seenIds)
         IN home' = [home EXCEPT
                        !.seenIds = new.seenIds,
                        !.feed = IF load.pageNum = 1 THEN new.newVideos
                                 ELSE @ \o new.newVideos,
                        !.shortsFeed = IF load.pageNum = 1 THEN new.newShorts
                                       ELSE @ \o new.newShorts,
                        !.isLoading = FALSE,
                        !.isFetchingMore = FALSE,
                        !.loads = @ \ {load}]
    /\ UNCHANGED <<engine, userVector, weighed, prefs>>

\* catch and finally.
LoadRejects ==
    /\ home.mounted
    /\ \E load \in home.loads :
         home' = [home EXCEPT
                     !.error = IF load.pageNum = 1 THEN "failed" ELSE @,
                     !.isLoading = FALSE,
                     !.isFetchingMore = FALSE,
                     !.loads = @ \ {load}]
    /\ UNCHANGED <<engine, userVector, weighed, prefs>>

InitHome ==
    /\ fn = "HomePage"
    /\ sources = <<>>
    /\ world = [bulk |-> FALSE, trending |-> 0, search |-> 0]
    /\ EngineIdle
    /\ home = HomeMounted
    /\ prefs = Unmounted

NextHome == RunEffect \/ LoadMore \/ LoadResolves \/ LoadRejects

SpecHome == InitHome /\ [][NextHome]_vars

(***************************************************************************)
(* PreferenceProvider.  The four lists are React state: a handler sees the  *)
(* lists of the last render (rendered) and queues an updater, which React   *)
(* applies to the newest state; the fields of prefs named after the lists   *)
(* hold that newest state.  Rendering hands the new lists to the handlers   *)
(* and runs the persistence effects.                                        *)
(***************************************************************************)
MaxBatch == 2

PreferenceLists == {"preferredGenres", "preferredChannels", "ngKeywords", "ngChannels"}

\* The values a caller passes to the handlers of each list.
PreferenceValues ==
    [preferredGenres |-> {Cat, Fox}, preferredChannels |-> {ChannelNames["c1"]},
     ngKeywords |-> {Dog}, ngChannels |-> {"c3"}]

\* JSON.stringify of a value, as it is kept in localStorage.
Stringify(value) == [text |-> "json", of |-> value]

NoLists ==
    [preferredGenres |-> <<>>, preferredChannels |-> <<>>, ngKeywords |-> <<>>,
     ngChannels |-> <<>>]

\* The provider after its first render, with nothing stored.
PrefsMounted ==
    [mounted |-> TRUE, preferredGenres |-> <<>>, preferredChannels |-> <<>>,
     ngKeywords |-> <<>>, ngChannels |-> <<>>, rendered |-> NoLists,
     localStorage |-> [list \in PreferenceLists |-> Stringify(<<>>)],
     batch |-> 0, last |-> [op |-> "render", list |-> "", value |-> <<>>]]

\* !list.includes(value) && setList(p => [...p, value])
AddValue(p, list, value) ==
    [p EXCEPT ![list] = IF value \in Range(p.rendered[list]) THEN @ ELSE Append(@, value),
              !.batch = @ + 1,
              !.last = [op |-> "add", list |-> list, value |-> value]]

\* setList(p => p.filter(x => x !== value))
RemoveValue(p, list, value) ==
    [p EXCEPT ![list] = SelectSeq(@, LAMBDA x : x # value),
              !.batch = @ + 1,
              !.last = [op |-> "remove", list |-> list, value |-> value]]

\* A handler can be called before the provider has rendered again.
CanHandle == prefs.mounted /\ fn = "PreferenceProvider" /\ prefs.batch < MaxBatch

addPreferredGenre ==
    /\ CanHandle
    /\ \E genre \in PreferenceValues["preferredGenres"] :
         prefs' = AddValue(prefs, "preferredGenres", genre)
    /\ UNCHANGED <<engine, userVector, weighed, home>>

removePreferredGenre ==
    /\ CanHandle
    /\ \E genre \in PreferenceValues["preferredGenres"] :
         prefs' = RemoveValue(prefs, "preferredGenres", genre)
    /\ UNCHANGED <<engine, userVector, weighed, home>>

addPreferredChannel ==
    /\ CanHandle
    /\ \E channel \in PreferenceValues["preferredChannels"] :
         prefs' = AddValue(prefs, "preferredChannels", channel)
    /\ UNCHANGED <<engine, userVector, weighed, home>>

removePreferredChannel ==
    /\ CanHandle
    /\ \E channel \in PreferenceValues["preferredChannels"] :
         prefs' = RemoveValue(prefs, "preferredChannels", channel)
    /\ UNCHANGED <<engine, userVector, weighed, home>>

addNgKeyword ==
    /\ CanHandle
    /\ \E keyword \in PreferenceValues["ngKeywords"] :
         prefs' = AddValue(prefs, "ngKeywords", keyword)
    /\ UNCHANGED <<engine, userVector, weighed, home>>

removeNgKeyword ==
    /\ CanHandle
    /\ \E keyword \in PreferenceValues["ngKeywords"] :
         prefs' = RemoveValue(prefs, "ngKeywords", keyword)
    /\ UNCHANGED <<engine, userVector, weighed, home>>

addNgChannel ==
    /\ CanHandle
    /\ \E channel \in PreferenceValues["ngChannels"] :
         prefs' = AddValue(prefs, "ngChannels", channel)
    /\ UNCHANGED <<engine, userVector, weighed, home>>

removeNgChannel ==
    /\ CanHandle
    /\ \E channel \in PreferenceValues["ngChannels"] :
         prefs' = RemoveValue(prefs, "ngChannels", channel)
    /\ UNCHANGED <<engine, userVector, weighed, home>>

\* React renders the provider: the handlers are rebuilt over the new lists
\* and the persistence effects of the lists that changed run.
Render ==
    /\ prefs.mounted
    /\ fn = "PreferenceProvider"
    /\ prefs.batch > 0
    /\ prefs' = [prefs EXCEPT
                    !.rendered = [list \in PreferenceLists |-> prefs[list]],
                    !.localStorage = [list \in PreferenceLists |-> Stringify(prefs[list])],
                    !.batch = 0,
                    !.last = [op |-> "render", list |-> "", value |-> <<>>]]
    /\ UNCHANGED <<engine, userVector, weighed, home>>

InitPrefs ==
    /\ fn = "PreferenceProvider"
    /\ sources = <<>>
    /\ world = [bulk |-> FALSE, trending |-> 0, search |-> 0]
    /\ EngineIdle
    /\ home = Unmounted
    /\ prefs = PrefsMounted

NextPrefs ==
    \/ addPreferredGenre
    \/ removePreferredGenre
    \/ addPreferredChannel
    \/ removePreferredChannel
    \/ addNgKeyword
    \/ removeNgKeyword
    \/ addNgChannel
    \/ removeNgChannel
    \/ Render

SpecPrefs == InitPrefs /\ [][NextPrefs]_vars

(***************************************************************************)
(* importUserData.  JSON values are records tagged with their type; the     *)
(* text of a file is either the JSON text of a value or no JSON at all.     *)
(* localStorage maps each key to the text stored under it.                  *)
(***************************************************************************)
JNull == [t |-> "null"]

JString(chars) == [t |-> "string", s |-> chars]

JArray(items) == [t |-> "array", a |-> items]

JObject(fields) == [t |-> "object", o |-> fields]

Undefined == [t |-> "undefined"]

\* A text that JSON.parse rejects.
NotJson == [text |-> "raw", of |-> <<"{", "o", "o", "p", "s">>]

\* A string stored as it is.
Raw(chars) == [text |-> "raw", of |-> chars]

\* localStorage.getItem of a key never set.
Absent == [text |-> "absent"]

\* Boolean(value)
Truthy(value) ==
    CASE value.t = "string" -> value.s # <<>>
      [] value.t \in {"array", "object"} -> TRUE
      [] OTHER -> FALSE

\* value.key; reading a property of null throws.
Field(value, key) ==
    IF value.t = "object" /\ key \in DOMAIN value.o THEN value.o[key] ELSE Undefined

\* a || b
Or(a, b) == IF Truthy(a) THEN a ELSE b

DataKeys == {"subscribedChannels", "videoHistory", "playlists"}

ListKeys ==
    {"preferredGenres", "preferredChannels", "preferredDurations", "ngKeywords",
     "ngChannels"}

StringKeys == {"preferredFreshness", "discoveryMode"}

NewKeys ==
    {"prefMood", "prefDepth", "prefVocal", "prefEra", "prefRegion", "prefLive",
     "prefInfoEnt", "prefPacing", "prefVisual", "prefCommunity"}

PreferenceKeys == ListKeys \union StringKeys \union NewKeys

StorageKeys == DataKeys \union PreferenceKeys

\* The field of json.preferences that goes to a list key.
ListField ==
    [preferredGenres |-> "genres", preferredChannels |-> "channels",
     preferredDurations |-> "durations", ngKeywords |-> "ngKeywords",
     ngChannels |-> "ngChannels"]

StringField == [preferredFreshness |-> "freshness", discoveryMode |-> "discoveryMode"]

Balanced == <<"b", "a", "l", "a", "n", "c", "e", "d">>

\* if (json.preferences) { ... }: what each preference key holds afterwards.
RestorePreference(store, p, key) ==
    IF key \in ListKeys THEN Stringify(Or(Field(p, ListField[key]), JArray(<<>>)))
    ELSE IF key \in StringKeys THEN Raw(Or(Field(p, StringField[key]), JString(Balanced)).s)
    ELSE IF Truthy(Field(p, key)) THEN Raw(Field(p, key).s)
    ELSE store[key]

\* A variant that restores the preference keys from whatever the file has.
RestoreAlways(store, json) ==
    [key \in StorageKeys |->
        CASE key = "subscribedChannels" -> Stringify(Field(json, "subscriptions"))
          [] key = "videoHistory" -> Stringify(Field(json, "history"))
          [] key = "playlists" -> Stringify(Or(Field(json, "playlists"), JArray(<<>>)))
          [] OTHER -> RestorePreference(store, Field(json, "preferences"), key)]

\* Restore Data: the setItem calls of the try block.
Restore(store, json) ==
    [key \in StorageKeys |->
        CASE key = "subscribedChannels" -> Stringify(Field(json, "subscriptions"))
          [] key = "videoHistory" -> Stringify(Field(json, "history"))
          [] key = "playlists" -> Stringify(Or(Field(json, "playlists"), JArray(<<>>)))
          [] OTHER ->
               IF Truthy(Field(json, "preferences"))
               THEN RestorePreference(store, Field(json, "preferences"), key)
               ELSE store[key]]

\* JSON.parse(text) succeeds.
Parses(text) == text.text = "json"

\* The try block throws: JSON.parse fails, json is null, or a field is missing.
ImportThrows(text) ==
    \/ ~ Parses(text)
    \/ text.of.t = "null"
    \/ ~ Truthy(Field(text.of, "subscriptions"))
    \/ ~ Truthy(Field(text.of, "history"))

Subs1 == JArray(<<JString(ChannelNames["c1"])>>)

Hist1 == JArray(<<JString(Cat), JString(Fox)>>)

BackupFields ==
    [subscriptions |-> Subs1, history |-> Hist1, playlists |-> JArray(<<JString(Owl)>>)]

\* The fields of an object, cut down to some of them.
Only(fields, keys) == [k \in keys |-> fields[k]]

ImportFiles ==
    {NotJson,
     Stringify(JNull),
     Stringify(JString(Cat)),
     Stringify(JArray(<<>>)),
     Stringify(JObject(Only(BackupFields, {}))),
     Stringify(JObject(Only(BackupFields, {"subscriptions"}))),
     Stringify(JObject(Only(BackupFields, {"history", "playlists"}))),
     Stringify(JObject(Only(BackupFields, {"subscriptions", "history"}))),
     Stringify(JObject(BackupFields)),
     Stringify(JObject([BackupFields EXCEPT !.history = JNull])),
     Stringify(JObject([BackupFields EXCEPT !.subscriptions = JArray(<<>>)])),
     Stringify(JObject(BackupFields @@ [preferences |-> JNull])),
     Stringify(JObject(BackupFields @@ [preferences |-> JObject(Only(BackupFields, {}))])),
     Stringify(JObject(BackupFields @@
        [preferences |->
            JObject([genres |-> JArray(<<JString(Fox)>>),
                     ngKeywords |-> JArray(<<JString(Dog)>>),
                     freshness |-> JString(<<"n", "e", "w">>),
                     prefMood |-> JString(<<"r", "e", "l", "a", "x">>),
                     prefEra |-> JString(<<>>)])]))}

\* What the browser holds before the import.
ImportStores ==
    {[key \in StorageKeys |-> Absent],
     [key \in StorageKeys |->
        IF key \in DataKeys \union ListKeys THEN Stringify(JArray(<<JString(Cat)>>))
        ELSE Raw(<<"a", "n", "y">>)],
     [key \in StorageKeys |->
        IF key \in {"videoHistory", "ngKeywords"} THEN Stringify(JArray(<<JString(Dog)>>))
        ELSE IF key = "prefMood" THEN Raw(<<"c", "a", "l", "m">>)
        ELSE Absent]}

InitImport ==
    /\ fn = "importUserData"
    /\ sources \in {[file |-> f, localStorage |-> st] : f \in ImportFiles, st \in ImportStores}
    /\ world = [bulk |-> FALSE, trending |-> 0, search |-> 0]
    /\ EngineIdle
    /\ home = Unmounted
    /\ prefs = [mounted |-> TRUE, localStorage |-> sources.localStorage,
                promise |-> "none", reading |-> FALSE, reloads |-> 0, alerts |-> 0]

\* importUserData(file): the promise is created and the reader starts.
importUserData ==
    /\ prefs.mounted
    /\ fn = "importUserData"
    /\ prefs.promise = "none"
    /\ prefs' = [prefs EXCEPT !.promise = "pending", !.reading = TRUE]
    /\ UNCHANGED <<engine, userVector, weighed, home>>

\* reader.onload
ReaderOnload ==
    /\ prefs.mounted
    /\ fn = "importUserData"
    /\ prefs.reading
    /\ prefs' =
         IF ImportThrows(sources.file)
         THEN [prefs EXCEPT !.reading = FALSE, !.alerts = @ + 1, !.promise = "rejected"]
         ELSE [prefs EXCEPT !.reading = FALSE,
                            !.localStorage = Restore(@, sources.file.of),
                            !.reloads = @ + 1,
                            !.promise = "resolved"]
    /\ UNCHANGED <<engine, userVector, weighed, home>>

NextImport == importUserData \/ ReaderOnload

SpecImport == InitImport /\ [][NextImport]_vars

(***************************************************************************)
(* HomePage of part_004: the page that shows a guide to a user without any  *)
(* data.  The user's data is kept as the lengths of the five lists the page *)
(* reads from its contexts.  requests records every call that goes out,     *)
(* with whether the user was a new user at that moment.                     *)
(***************************************************************************)
UserData ==
    [subscribedChannels : {1, 2}, searchHistory : {0, 1}, watchHistory : {0, 1},
     preferredGenres : {0, 1}, preferredChannels : {0, 1}]

\* useMemo(() => !(hasSubscriptions || hasSearchHistory || ...))
isNewUser(user) ==
    LET hasSubscriptions == user.subscribedChannels > 1
        hasSearchHistory == user.searchHistory > 0
        hasWatchHistory == user.watchHistory > 0
        hasPreferences == user.preferredGenres > 0 \/ user.preferredChannels > 0
    IN ~ (hasSubscriptions \/ hasSearchHistory \/ hasWatchHistory \/ hasPreferences)

\* What getDeeplyAnalyzedRecommendations and getRecommendedVideos return.
AnalyzedResults == {<<V1, V2>>, <<V1, V2, V3, V4, V5, V6, V7, V8, V9, V10>>}

TrendingResults == {<<V1, V5>>}

SHOWN_FLOOR == 10

\* The page as useState creates it.
GuideUnrendered(user) ==
    [mounted |-> TRUE, user |-> user, recommendedVideos |-> <<>>, isLoading |-> TRUE,
     error |-> "null", page |-> 1, isFetchingMore |-> FALSE, loads |-> {},
     requests |-> {}, changes |-> 0]

\* A call that leaves the page.
Request(h, kind) == [kind |-> kind, newUser |-> isNewUser(h.user)]

\* loadRecommendations(pageNum) up to its first await.
StartAnalysis(h, pageNum) ==
    [h EXCEPT !.isLoading = IF pageNum = 1 THEN TRUE ELSE @,
              !.isFetchingMore = IF pageNum = 1 THEN @ ELSE TRUE,
              !.loads = @ \union {[pageNum |-> pageNum, stage |-> "analyzing",
                                    videos |-> <<>>, started |-> h.changes]},
              !.requests = @ \union {Request(h, "getDeeplyAnalyzedRecommendations")}]

\* The body of the initial-load effect.
GuideEffect(h) ==
    LET reset == [h EXCEPT !.page = 1, !.recommendedVideos = <<>>, !.error = "null"]
    IN IF isNewUser(h.user) THEN [reset EXCEPT !.isLoading = FALSE]
       ELSE StartAnalysis(reset, 1)

\* setRecommendedVideos(prev => ...) followed by the finally block.
ShowVideos(h, load, newVideos) ==
    LET existingIds == {v.id : v \in Range(h.recommendedVideos)}
        uniqueNewVideos == SelectSeq(newVideos, LAMBDA v : v.id \notin existingIds)
    IN [h EXCEPT !.recommendedVideos =
                    IF load.pageNum = 1 THEN uniqueNewVideos ELSE @ \o uniqueNewVideos,
                 !.isLoading = FALSE,
                 !.isFetchingMore = FALSE,
                 !.loads = @ \ {load}]

InitGuide ==
    /\ fn = "HomePage.part_004"
    /\ sources \in UserData
    /\ world = [bulk |-> FALSE, trending |-> 0, search |-> 0]
    /\ EngineIdle
    /\ home = GuideEffect(GuideUnrendered(sources))
    /\ prefs = Unmounted

\* One of the lists the page reads changes; the page renders and the effect
\* runs when one of its dependencies changed.
ChangeUserData ==
    /\ home.mounted
    /\ fn = "HomePage.part_004"
    /\ home.changes < MaxEffects
    /\ \E user \in UserData :
         /\ Cardinality({k \in DOMAIN user : user[k] # home.user[k]}) = 1
         /\ LET changed == [home EXCEPT !.user = user, !.changes = @ + 1]
            IN home' =
                 IF \/ isNewUser(user) # isNewUser(home.user)
                    \/ user.preferredGenres # home.user.preferredGenres
                    \/ user.preferredChannels # home.user.preferredChannels
                 THEN GuideEffect(changed)
                 ELSE changed
    /\ UNCHANGED <<engine, userVector, weighed, prefs>>

\* loadMore, called by the infinite scroll
GuideLoadMore ==
    /\ home.mounted
    /\ fn = "HomePage.part_004"
    /\ home.page <= MaxScroll
    /\ ~ home.isFetchingMore /\ ~ home.isLoading /\ ~ isNewUser(home.user)
    /\ home' = StartAnalysis([home EXCEPT !.page = @ + 1], home.page + 1)
    /\ UNCHANGED <<engine, userVector, weighed, prefs>>

\* getDeeplyAnalyzedRecommendations resolves: the fallback request goes out
\* or the videos are shown.
AnalysisResolves ==
    /\ home.mounted
    /\ fn = "HomePage.part_004"
    /\ \E load \in home.loads, analyzedVideos \in AnalyzedResults :
         /\ load.stage = "analyzing"
         /\ home' =
              IF Len(analyzedVideos) < SHOWN_FLOOR /\ load.pageNum = 1
              THEN [home EXCEPT
                      !.loads = (@ \ {load}) \union
                                {[load EXCEPT !.stage = "trending", !.videos = analyzedVideos]},
                      !.requests = @ \union {Request(home, "getRecommendedVideos")}]
              ELSE ShowVideos(home, load, analyzedVideos)
    /\ UNCHANGED <<engine, userVector, weighed, prefs>>

\* getDeeplyAnalyzedRecommendations rejects: catch and finally.
AnalysisRejects ==
    /\ home.mounted
    /\ fn = "HomePage.part_004"
    /\ \E load \in home.loads :
         /\ load.stage = "analyzing"
         /\ home' = [home EXCEPT !.error = IF load.pageNum = 1 THEN "message" ELSE @,
                                 !.isLoading = FALSE,
                                 !.isFetchingMore = FALSE,
                                 !.loads = @ \ {load}]
    /\ UNCHANGED <<engine, userVector, weighed, prefs>>

\* getRecommendedVideos resolves.
TrendingResolves ==
    /\ home.mounted
    /\ fn = "HomePage.part_004"
    /\ \E load \in home.loads, trendingVideos \in TrendingResults :
         /\ load.stage = "trending"
         /\ home' = ShowVideos(home, load, load.videos \o trendingVideos)
    /\ UNCHANGED <<engine, userVector, weighed, prefs>>

\* getRecommendedVideos rejects: the inner catch keeps the analyzed videos.
TrendingRejects ==
    /\ home.mounted
    /\ fn = "HomePage.part_004"
    /\ \E load \in home.loads :
         /\ load.stage = "trending"
         /\ home' = ShowVideos(home, load, load.videos)
    /\ UNCHANGED <<engine, userVector, weighed, prefs>>

NextGuide ==
    \/ ChangeUserData
    \/ GuideLoadMore
    \/ AnalysisResolves
    \/ AnalysisRejects
    \/ TrendingResolves
    \/ TrendingRejects

SpecGuide == InitGuide /\ [][NextGuide]_vars

(***************************************************************************)
(* Properties of the recommendation engine.                                 *)
(***************************************************************************)
\* What the function handed back to its caller, videos before shorts.
Returned == out.videos \o out.shorts

Finished == pc = "done" /\ result = "resolved"

Ids(videos) == {videos[k].id : k \in 1..Len(videos)}

\* The caller's seen-set: hidden videos for the home feed; hidden videos,
\* session-seen ids and shorts history for the shorts feed.
CallerSeenSet ==
    CASE fn = "home" -> Range(sources.hiddenVideos)
      [] fn = "shorts" ->
            Range(sources.hiddenVideos) \union Range(sources.seenIds)
                \union Ids(sources.shortsHistory)
      [] OTHER -> {}

\* C1: no video whose id is in the caller's seen-set is returned by the
\* home feed or the shorts feed, backfilled items included.
C1_SeenNeverReturned ==
    pc = "done" => \A k \in 1..Len(Returned) : Returned[k].id \notin CallerSeenSet

\* A backfilled shorts feed whose trending pool held a seen short.
C1_Witness ==
    /\ Finished
    /\ fn = "shorts"
    /\ backfilled
    /\ \E k \in 1..Len(values[1].videos) : values[1].videos[k].id \in CallerSeenSet
    /\ Len(out.videos) > Len(Admitted(walk))

\* The caller's NG keywords, matched without case in title and channel name.
KeywordBlocked(v) ==
    \E j \in 1..Len(sources.ngKeywords) :
        Includes(ToLowerCase(v.title \o <<" ">> \o v.channelName),
                 ToLowerCase(sources.ngKeywords[j]))

\* C2: no returned video carries an NG keyword in its title or channel
\* name, in any of the three functions, backfilled items included.
C2_NgKeywordNeverReturned ==
    pc = "done" => \A k \in 1..Len(Returned) : ~ KeywordBlocked(Returned[k])

\* The caller's NG channel ids: channel objects for the home and shorts
\* feeds, plain ids for the deep feed.
BlockedChannelIds ==
    IF fn = "deep" THEN Range(sources.ngChannels)
    ELSE {sources.ngChannels[k].id : k \in 1..Len(sources.ngChannels)}

\* C3: no returned video belongs to an NG channel, in any of the three
\* functions, backfilled items included.
C3_NgChannelNeverReturned ==
    pc = "done" =>
        \A k \in 1..Len(Returned) : Returned[k].channelId \notin BlockedChannelIds

\* The cooldown a channel has in a cooldown table, 0 when it has none.
CoolAt(cd, c) == IF \E e \in cd : e[1] = c THEN (CHOOSE e \in cd : e[1] = c)[2] ELSE 0

\* The channels a cooldown table mentions.
CoolChannels(cd) == {e[1] : e \in cd}

\* The videos the diversity walk admitted, in walk order.
WalkAdmitted ==
    LET kept == SelectSeq(walk, LAMBDA st : st.admitted)
    IN [k \in 1..Len(kept) |-> kept[k].video]

\* C4: in the shorts feed a candidate is admitted only when its channel's
\* cooldown is 0; admission sets that channel's cooldown to 3 and lowers
\* every other positive cooldown by one; a skipped candidate changes no
\* cooldown; so without backfill no channel appears twice among any three
\* consecutive items of the feed.
C4_CooldownWindow ==
    (fn = "shorts" /\ pc = "done") =>
        /\ \A k \in 1..Len(walk) :
             LET st == walk[k]
                 c == st.video.channelId
             IN /\ st.before = IF k = 1 THEN {} ELSE walk[k - 1].after
                /\ st.admitted <=> (st.score >= -5000 /\ CoolAt(st.before, c) = 0)
                /\ st.admitted =>
                     /\ CoolAt(st.after, c) = 3
                     /\ \A d \in (CoolChannels(st.before) \union CoolChannels(st.after)) \ {c} :
                          CoolAt(st.after, d) =
                              IF CoolAt(st.before, d) > 0 THEN CoolAt(st.before, d) - 1
                              ELSE 0
                /\ ~ st.admitted => st.after = st.before
        /\ ~ backfilled =>
             /\ out.videos = WalkAdmitted
             /\ \A i, j \in 1..Len(out.videos) :
                  (i < j /\ j - i < 3) => out.videos[i].channelId # out.videos[j].channelId

\* A feed of five or more without backfill in which a candidate was skipped
\* for its cooldown and its channel came back later.
C4_Witness ==
    /\ Finished
    /\ fn = "shorts"
    /\ ~ backfilled
    /\ Len(out.videos) >= 5
    /\ \E k \in 1..Len(walk) : ~ walk[k].admitted /\ ~ walk[k].dropped
    /\ \E i, j \in 1..Len(out.videos) :
         i < j /\ out.videos[i].channelId = out.videos[j].channelId

\* C5: a failed call contributes nothing and fails nothing else: the
\* invocation resolves, a failed call's value is empty, every other call's
\* value is its answer, and the candidates are what the calls that
\* succeeded returned.
C5_FailureIsolated ==
    /\ result # "rejected"
    /\ pc = "done" =>
         /\ result = "resolved"
         /\ \A i \in 1..Len(calls) :
              /\ values[i].state = "fulfilled"
              /\ i \in fails => values[i].videos = <<>> /\ values[i].shorts = <<>>
              /\ i \notin fails =>
                   values[i] = OnFulfilled(fn, calls[i], Answer(World(world), calls[i]))
         /\ Range(candidates) =
              UNION {Range(OnFulfilled(fn, calls[i], Answer(World(world), calls[i])).videos)
                       \union
                     Range(OnFulfilled(fn, calls[i], Answer(World(world), calls[i])).shorts)
                       : i \in (1..Len(calls)) \ fails}

\* Some calls failed, some did not, and videos were returned.
C5_Witness ==
    /\ Finished
    /\ fails # {}
    /\ fails # 1..Len(calls)
    /\ Len(Returned) > 0

\* C6: when every call of an invocation fails, the invocation surfaces one
\* failure to its caller.
C6_TotalFailureSurfaced ==
    (pc = "done" /\ Len(calls) > 0 /\ fails = 1..Len(calls)) => result = "rejected"

\* How many of the returned long videos come from a pool.
CountFrom(pool) ==
    Cardinality({k \in 1..Len(out.videos) : out.videos[k].id \in Ids(pool)})

\* C7: when at least 50 trending and at least 75 personalized long videos
\* are eligible, the home feed returns exactly 20 trending and 30
\* personalized long videos, 50 in all.
C7_MixComposition ==
    (/\ pc = "done"
     /\ fn = "home"
     /\ Len(clean.trendingVideos) >= 50
     /\ Len(clean.personalizedVideos) >= 75)
        => /\ Len(out.videos) = 50
           /\ CountFrom(clean.trendingVideos) = 20
           /\ CountFrom(clean.personalizedVideos) = 30

\* Both pools are large enough, and the personalized answers repeated
\* trending ids that the filter had to remove.
C7_Witness ==
    /\ Finished
    /\ fn = "home"
    /\ Len(clean.trendingVideos) >= 50
    /\ Len(clean.personalizedVideos) >= 75
    /\ Len(candidates) > Cardinality(Ids(candidates))
    /\ Len(out.videos) = 50

\* The metadata rules of the function that ran, the seen ids left aside.
Acceptable(v) ==
    CASE fn = "home" -> HomeAccepts(v, {}, sources)
      [] fn = "shorts" -> PassesHardFilters(v, sources)
      [] fn = "deep" -> isValidRecommendation(v, sources)

\* The earliest candidate with this id that the rules accept; for a
\* backfilled item, the earliest candidate with this id.
FirstCopy(id, pool) ==
    LET hits == {j \in pool : candidates[j].id = id}
    IN candidates[CHOOSE j \in hits : \A h \in hits : j <= h]

InIssueOrder == [i \in 1..Len(calls) |-> PromiseValue(fn, world, calls, fails, i)]

\* C9: the result depends on the order in which the calls were issued and
\* on what each returned, never on the order in which they completed.
C9_OrderIndependent ==
    /\ (pc # "idle" /\ settled \in {{}, 1..Len(calls)}) =>
         calls = EngineCalls(fn, sources, seed)
    /\ \A i \in settled : values[i] = PromiseValue(fn, world, calls, fails, i)
    /\ pc = "done" =>
         LET inOrder == InIssueOrder
             run == EngineRun(fn, inOrder, sources, seedAfter)
         IN /\ values = inOrder
            /\ candidates = run.candidates
            /\ out = run.out

\* The last call issued completed first, with videos, while the first call
\* was still pending.
C9_Witness ==
    /\ pc = "awaiting"
    /\ Len(calls) >= 3
    /\ settled = {Len(calls)}
    /\ values[Len(calls)].videos # <<>>
    /\ values[1].state = "pending"

\* The trending calls of the invocation.
TrendingCalls == {i \in 1..Len(calls) : calls[i].kind = "trending"}

\* C10 as stated: every invocation issues the trending call, whatever the
\* page and the history length.
C10_TrendingAlways ==
    pc # "idle" => TrendingCalls # {}

\* C10: the home feed and the shorts feed issue the trending call once in
\* every invocation; the deep feed issues it once when the watch history
\* has fewer than 5 entries or the page is 1, and not at all otherwise.
C10_TrendingWhenWanted ==
    pc # "idle" =>
        /\ fn \in {"home", "shorts"} => Cardinality(TrendingCalls) = 1
        /\ fn = "deep" =>
             Cardinality(TrendingCalls) =
                 IF Len(sources.watchHistory) < 5 \/ sources.page = 1 THEN 1 ELSE 0

\* A later page of the deep feed for a user with a long history: calls
\* were issued, none of them the trending call.
C10_Witness ==
    /\ pc # "idle"
    /\ fn = "deep"
    /\ Len(sources.watchHistory) >= 5
    /\ sources.page > 1
    /\ Len(calls) > 0
    /\ TrendingCalls = {}

\* The score the walk gave each candidate, in walk order.
Scores(steps) == [k \in 1..Len(steps) |-> [id |-> steps[k].video.id, score |-> steps[k].score]]

\* The invocation that just finished had the inputs, the fetch results and
\* the random draws of the first one the caller remembers.
RepeatsFirst ==
    /\ pc = "done"
    /\ prev.first # <<>>
    /\ prev.first[1].fn = fn
    /\ prev.first[1].sources = sources
    /\ prev.first[1].world = world
    /\ prev.first[1].fails = fails
    /\ prev.first[1].seed = seed
    /\ prev.first[1].seedAfter = seedAfter

WellFormedText(text) ==
    LET parts == SplitOn(text, {":"}, <<>>)
    IN /\ Len(parts) \in 1..3
       /\ \A k \in 1..Len(parts) :
            parts[k] # <<>> /\ \A c \in 1..Len(parts[k]) : IsDigit(parts[k][c])

\* The token holds the PT marker somewhere.
HasToken(iso) == \E i \in 1..(Len(iso) - 1) : iso[i] = "P" /\ iso[i + 1] = "T"

\* C12: parseDuration returns an integer number of seconds >= 0 for every
\* pair of strings, and 0 whenever neither the token nor the text can be
\* parsed (non-numeric text, a negative number, more than three parts).
C12_DurationNonNegative ==
    (pc = "done" /\ fn = "parseDuration") =>
        /\ ~ result.nan
        /\ result.n >= 0
        /\ (~ HasToken(sources.iso) /\ ~ WellFormedText(sources.text)) => result.n = 0

\* The intended reading of the well-formed tokens and texts tried.
TokenForms ==
    {[form |-> <<"P", "T", "1", "H", "2", "M", "3", "S">>, h |-> 1, m |-> 2, s |-> 3],
     [form |-> <<"P", "T", "2", "M", "3", "0", "S">>, h |-> 0, m |-> 2, s |-> 30],
     [form |-> <<"P", "T", "4", "5", "S">>, h |-> 0, m |-> 0, s |-> 45],
     [form |-> <<"P", "T", "1", "H">>, h |-> 1, m |-> 0, s |-> 0],
     [form |-> <<"P", "T", "1", "0", "M">>, h |-> 0, m |-> 10, s |-> 0],
     [form |-> <<"P", "T", "1", "H", "5", "S">>, h |-> 1, m |-> 0, s |-> 5]}

TextForms ==
    {[form |-> <<"2", ":", "3", "0">>, h |-> 0, m |-> 2, s |-> 30],
     [form |-> <<"1", ":", "0", "2", ":", "0", "3">>, h |-> 1, m |-> 2, s |-> 3],
     [form |-> <<"4", "5">>, h |-> 0, m |-> 0, s |-> 45],
     [form |-> <<"0", ":", "5", "9">>, h |-> 0, m |-> 0, s |-> 59]}

\* C13: parseDuration computes h*3600 + m*60 + s from a PT..H..M..S token,
\* missing components counting as 0, and from the text H:MM:SS, MM:SS or
\* seconds when the token is empty; parseDuration("PT1H2M3S", "") = 3723,
\* parseDuration("", "2:30") = 150 and parseDuration("", "") = 0;
\* parseDurationToSeconds agrees on the token.
C13_DurationComputed ==
    pc = "done" =>
        /\ \A f \in TokenForms :
             sources.iso = f.form =>
                 result = [nan |-> FALSE, n |-> f.h * 3600 + f.m * 60 + f.s]
        /\ \A f \in TextForms :
             (fn = "parseDuration" /\ sources.iso = <<>> /\ sources.text = f.form) =>
                 result = [nan |-> FALSE, n |-> f.h * 3600 + f.m * 60 + f.s]
        /\ (sources.iso = <<>> /\ sources.text = <<>>) => result = [nan |-> FALSE, n |-> 0]
        /\ (fn = "parseDuration" /\ sources.iso = <<"P", "T", "1", "H", "2", "M", "3", "S">> /\ sources.text = <<>>)
               => result.n = 3723
        /\ (fn = "parseDuration" /\ sources.iso = <<>> /\ sources.text = <<"2", ":", "3", "0">>)
               => result.n = 150

\* parseDuration("PT1H2M3S", "") has returned.
C13_Witness ==
    /\ pc = "done"
    /\ fn = "parseDuration"
    /\ sources.iso = <<"P", "T", "1", "H", "2", "M", "3", "S">>
    /\ sources.text = <<>>
    /\ result.n = 3723

\* C14: no video whose id is in the user's watch history, at any position,
\* is returned by any of the three functions.
C14_HistoryNeverReturned ==
    pc = "done" => Ids(Returned) \intersect Ids(sources.watchHistory) = {}

\* C15: when fewer than 5 shorts were admitted, the backfill appends
\* unseen trending shorts not yet in the feed only until the feed has 5
\* items or the pool is exhausted: the feed never grows beyond 5 and no id
\* is added twice.
C15_BackfillToFloor ==
    (pc = "done" /\ fn = "shorts" /\ backfilled) =>
        LET feed == out.videos
            base == Len(WalkAdmitted)
            pool == {values[1].videos[k].id : k \in 1..Len(values[1].videos)}
        IN /\ base < 5
           /\ SubSeq(feed, 1, base) = WalkAdmitted
           /\ Len(feed) <= 5
           /\ \A i, j \in 1..Len(feed) : i # j => feed[i].id # feed[j].id
           /\ \A k \in (base + 1)..Len(feed) :
                feed[k].id \in pool /\ feed[k].id \notin CallerSeenSet
           /\ Len(feed) < 5 => \A id \in pool : id \in CallerSeenSet \/ id \in Ids(feed)

\* The calls of one kind the invocation has issued.
CallsOfKind(kind) == {i \in 1..Len(calls) : calls[i].kind = kind}

\* C16: an invocation issues at most 5 search calls, at most 3
\* channel-listing calls and at most 1 trending call, and once the calls
\* are issued none is issued again, whether it failed or not.
C16_CallCaps ==
    /\ [](/\ Cardinality(CallsOfKind("search")) <= 5
          /\ Cardinality(CallsOfKind("channel")) <= 3
          /\ Cardinality(CallsOfKind("trending")) <= 1)
    /\ [][pc = "awaiting" => calls' = calls]_vars

\* A caller with more than three subscriptions and more than five history
\* entries: the deep feed's calls have all settled, some of them failed.
C16_Witness ==
    /\ pc = "awaiting"
    /\ fn = "deep"
    /\ Len(sources.subscribedChannels) > 3
    /\ Len(sources.watchHistory) > 5
    /\ Cardinality(CallsOfKind("channel")) = 3
    /\ settled = 1..Len(calls)
    /\ fails \intersect CallsOfKind("channel") # {}

\* C17: in getXraiShorts no candidate whose score is below -50 appears in
\* the returned feed.
C17_BelowFloorNeverReturned ==
    (pc = "done" /\ fn = "shorts") =>
        \A k \in 1..Len(walk) :
            walk[k].score < -5000 => walk[k].video.id \notin Ids(out.videos)

RECURSIVE SumSeq(_)
SumSeq(ns) == IF ns = <<>> THEN 0 ELSE Head(ns) + SumSeq(Tail(ns))

\* The sum of the caller's negative weights over the keywords of a video's
\* title and channel name.
Penalty(v) ==
    LET ks == extractKeywords(v.title) \o extractKeywords(v.channelName)
        weight(k) ==
            IF \E e \in sources.negativeKeywords : e[1] = k
            THEN (CHOOSE e \in sources.negativeKeywords : e[1] = k)[2]
            ELSE 0
    IN SumSeq([k \in 1..Len(ks) |-> weight(ks[k])])

\* No NG keyword, no NG channel, and a penalty of 2 or less.
PassesRules(v) ==
    /\ ~ KeywordBlocked(v)
    /\ v.channelId \notin BlockedChannelIds
    /\ Penalty(v) <= 2

\* The candidates the rules of the claim accept: those that pass the rules
\* and are not seen, that is neither hidden nor accepted earlier.
Accepted18 ==
    LET passing == {k \in 1..Len(candidates) : PassesRules(candidates[k])}
    IN {k \in passing :
           /\ candidates[k].id \notin Range(sources.hiddenVideos)
           /\ \A j \in passing : j < k => candidates[j].id # candidates[k].id}

\* What filterAndDedupe kept, in the order of its four calls.
KeptByFilter ==
    clean.trendingVideos \o clean.personalizedVideos
        \o clean.trendingShorts \o clean.personalizedShorts

\* C18: getXraiRecommendations rejects a candidate exactly when it is seen,
\* matches an NG keyword, is of an NG channel, or the sum of the negative
\* weights of its keywords is greater than 2; a sum of exactly 2 passes.
C18_RejectedExactly ==
    (pc = "done" /\ fn = "home") =>
        LET accepted == Accepted18
            picked == SelectSeq([k \in 1..Len(candidates) |-> k],
                                LAMBDA k : k \in accepted)
        IN KeptByFilter = [i \in 1..Len(picked) |-> candidates[picked[i]]]

\* The filter kept a candidate whose sum is exactly 2 and rejected one for
\* a sum of 3 alone.
C18_Witness ==
    /\ Finished
    /\ fn = "home"
    /\ \E k \in 1..Len(KeptByFilter) : Penalty(KeptByFilter[k]) = 2
    /\ \E k \in 1..Len(candidates) :
         /\ Penalty(candidates[k]) = 3
         /\ ~ KeywordBlocked(candidates[k])
         /\ candidates[k].channelId \notin BlockedChannelIds
         /\ candidates[k].id \notin Range(sources.hiddenVideos)
         /\ candidates[k].id \notin Ids(KeptByFilter)

\* The queries of the search calls, in issue order.
SearchQueries ==
    LET searches == SelectSeq(calls, LAMBDA c : c.kind = "search")
    IN [k \in 1..Len(searches) |-> searches[k].arg]

\* The queries are the n heaviest terms of the vector (all of them if it
\* has fewer), heaviest first, each followed by " #shorts"; the generic
\* seeds when the vector is empty.
SearchesTopTerms(n) ==
    LET vec == UserVector(sources)
        marker == <<" ", "#", "s", "h", "o", "r", "t", "s">>
        generic == <<<<"F", "u", "n", "n", "y">> \o marker,
                     <<"T", "r", "e", "n", "d", "i", "n", "g">> \o marker>>
        weightOf(q) == (CHOOSE e \in Range(vec) : e.k \o marker = q).w
    IN IF vec = <<>> THEN SearchQueries = generic
       ELSE /\ Len(SearchQueries) = (IF Len(vec) < n THEN Len(vec) ELSE n)
            /\ \A k \in 1..Len(SearchQueries) :
                 \E e \in Range(vec) : e.k \o marker = SearchQueries[k]
            /\ \A i, j \in 1..Len(SearchQueries) :
                 /\ i < j => weightOf(SearchQueries[i]) >= weightOf(SearchQueries[j])
                 /\ i # j => SearchQueries[i] # SearchQueries[j]
            /\ \A e \in Range(vec) :
                 (\A k \in 1..Len(SearchQueries) : e.k \o marker # SearchQueries[k])
                     => \A k \in 1..Len(SearchQueries) : e.w <= weightOf(SearchQueries[k])

\* C19 as stated: getXraiShorts issues one search call for each of the
\* top-4 terms of the user vector, suffixed with the short-form marker, and
\* for the generic seeds when the vector is empty.
C19_SearchesTopFour ==
    (fn = "shorts" /\ pc # "idle") => SearchesTopTerms(4)

\* C19: the seeds are the top-4 terms of the user vector, suffixed with the
\* short-form marker, and the search calls are issued for the first 3 of
\* them; the generic seeds are searched when the vector is empty.
C19_SearchesTopThree ==
    (fn = "shorts" /\ pc # "idle") => SearchesTopTerms(3)

\* A user vector of four or more terms: three searches were issued.
C19_Witness ==
    /\ fn = "shorts"
    /\ pc # "idle"
    /\ Len(UserVector(sources)) >= 4
    /\ Len(SearchQueries) = 3

\* C20: the search queries of one invocation are at most 5 and pairwise
\* distinct.
C20_QueriesDistinct ==
    pc # "idle" =>
        /\ Len(SearchQueries) <= 5
        /\ \A i, j \in 1..Len(SearchQueries) : i # j => SearchQueries[i] # SearchQueries[j]

\* The tokens of the vector.
Keys(vec) == {vec[e].k : e \in 1..Len(vec)}

\* How often a token occurs among the keywords of a text.
Occurrences(k, text) ==
    LET ks == extractKeywords(text)
    IN Cardinality({j \in 1..Len(ks) : ks[j] = k})

\* What the first n items of a history add to the weight of a token.
HistoryWeight(k, history, n, t, c) ==
    SumSeq([i \in 1..(IF Len(history) < n THEN Len(history) ELSE n) |->
               Decayed(t, i - 1) * Occurrences(k, history[i].title)
                 + Decayed(c, i - 1) * Occurrences(k, history[i].channelName)])

\* The weight a token has once the vector is built.
ExpectedWeight(k) ==
    SumSeq([n \in 1..Len(sources.subscribedChannels) |->
               500 * Occurrences(k, sources.subscribedChannels[n].name)])
      + HistoryWeight(k, sources.shortsHistory, 30, 300, 400)
      + HistoryWeight(k, sources.watchHistory, 20, 150, 200)

\* Every token of every text of the caller's signals, sliced off or not.
AllTokens ==
    UNION ({Range(extractKeywords(sources.subscribedChannels[n].name)) :
               n \in 1..Len(sources.subscribedChannels)}
             \union
           {Range(extractKeywords(v.title)) \union Range(extractKeywords(v.channelName)) :
               v \in Range(sources.shortsHistory) \union Range(sources.watchHistory)})

\* The construction has made its last addWeight call.
Built == fn = "shorts" /\ pc = "idle" /\ weighed = Len(WeightSteps(sources))

\* C21: while the user vector of getXraiShorts is built, every weight is
\* non-negative; an addWeight step lowers no weight and removes no token;
\* and the built vector holds exactly what the subscriptions, the first 30
\* shorts-history items and the first 20 watch-history items contribute.
C21_WeightsOnlyIncrease ==
    /\ [](\A e \in 1..Len(userVector) : userVector[e].w >= 0)
    /\ [][\A k \in Keys(userVector) :
             /\ k \in Keys(userVector')
             /\ VectorGet(userVector', k) >= VectorGet(userVector, k)]_vars
    /\ [](Built =>
            /\ userVector = UserVector(sources)
            /\ Keys(userVector) = {k \in AllTokens : ExpectedWeight(k) > 0}
            /\ \A k \in AllTokens : VectorGet(userVector, k) = ExpectedWeight(k))

\* A vector built from histories longer than the slices: the token of the
\* 31st short is not in it, and the token of the first 20 videos was raised
\* twenty times.
C21_Witness ==
    /\ Built
    /\ Len(sources.shortsHistory) > 30
    /\ Len(sources.watchHistory) > 20
    /\ Owl \in AllTokens
    /\ Owl \notin Keys(userVector)
    /\ VectorGet(userVector, Cat) > 150

\* C22: all the calls of an invocation are issued in one step, before any
\* outcome is consumed, and none is issued later; filtering, scoring and
\* mixing have produced nothing while a call is pending, and the function
\* goes on only when every call has settled, failed ones included.
C22_FetchThenProcess ==
    /\ [](pc = "idle" => calls = <<>> /\ settled = {})
    /\ [][(pc = "idle" /\ pc' # "idle") =>
             /\ pc' = "awaiting"
             /\ settled' = {}
             /\ \A i \in 1..Len(calls') : values'[i] = Pending]_vars
    /\ [][pc # "idle" => calls' = calls]_vars
    /\ [](pc # "done" =>
            candidates = <<>> /\ clean = NoClean /\ walk = <<>> /\ out = NoOut)
    /\ [][(pc # "done" /\ pc' = "done") =>
             /\ settled = 1..Len(calls)
             /\ \A i \in 1..Len(calls) : values[i].state # "pending"]_vars

\* The deep feed returned videos after three or more calls of which
\* exactly one, not the last issued, had failed.
C22_Witness ==
    /\ Finished
    /\ fn = "deep"
    /\ Len(calls) >= 3
    /\ Cardinality(fails) = 1
    /\ Len(calls) \notin fails
    /\ Len(Returned) > 0

\* The shorts the home filter kept, of both pools.
CleanShorts == clean.trendingShorts \o clean.personalizedShorts

\* C23: the home feed returns at most 50 videos, at most 20 of them from
\* the trending pool and at most 30 from the personalized pool, all of them
\* from the filtered pools; it returns at most 20 shorts, and they are the
\* filtered shorts of both pools taken together and cut to 20.
C23_OutputSizes ==
    (pc = "done" /\ fn = "home") =>
        /\ Len(out.videos) <= 50
        /\ CountFrom(clean.trendingVideos) <= 20
        /\ CountFrom(clean.personalizedVideos) <= 30
        /\ Ids(out.videos) \subseteq
               Ids(clean.trendingVideos) \union Ids(clean.personalizedVideos)
        /\ Len(out.shorts) <= 20
        /\ Len(out.shorts) = IF Len(CleanShorts) < 20 THEN Len(CleanShorts) ELSE 20
        /\ Range(out.shorts) \subseteq Range(CleanShorts)

\* More than 20 shorts passed the filter, more than 20 trending and more
\* than 30 personalized videos too, and the 20 shorts returned come from
\* both pools.
C23_Witness ==
    /\ Finished
    /\ fn = "home"
    /\ Len(CleanShorts) > 20
    /\ Len(clean.trendingVideos) > 20
    /\ Len(clean.personalizedVideos) > 30
    /\ Len(out.shorts) = 20
    /\ Range(out.shorts) \intersect Range(clean.trendingShorts) # {}
    /\ Range(out.shorts) \intersect Range(clean.personalizedShorts) # {}

\* The candidates the walk passed over for their channel's cooldown.
SkippedSteps == {k \in 1..Len(walk) : ~ walk[k].admitted /\ ~ walk[k].dropped}

\* C24: in the diversity walk of getXraiShorts every candidate is visited
\* once, so one skipped for its cooldown is not admitted later in the walk;
\* the admitted items are in non-increasing score order and are the feed
\* the walk leaves, in that order; a skip changes no cooldown counter.
C24_SkippedNeverRetried ==
    (fn = "shorts" /\ pc = "done") =>
        /\ \A i, j \in 1..Len(walk) : i # j => walk[i].video.id # walk[j].video.id
        /\ \A i \in SkippedSteps : \A j \in 1..Len(walk) :
             walk[j].admitted => walk[j].video.id # walk[i].video.id
        /\ \A i, j \in 1..Len(walk) :
             (i < j /\ walk[i].admitted /\ walk[j].admitted) => walk[i].score >= walk[j].score
        /\ SubSeq(out.videos, 1, Len(WalkAdmitted)) = WalkAdmitted
        /\ \A i \in SkippedSteps :
             /\ walk[i].after = walk[i].before
             /\ CoolAt(walk[i].before, walk[i].video.channelId) > 0
             /\ walk[i].video.id \notin Ids(WalkAdmitted)

\* A candidate was skipped for its cooldown, a candidate with a strictly
\* lower score was admitted after it, and the skipped one is not in the
\* feed.
C24_Witness ==
    /\ Finished
    /\ fn = "shorts"
    /\ \E i \in SkippedSteps : \E j \in 1..Len(walk) :
         /\ i < j
         /\ walk[j].admitted
         /\ walk[j].score < walk[i].score
         /\ walk[i].video.id \notin Ids(out.videos)

\* The candidate's title and channel name hold the term, in any case.
Mentions(v, term) ==
    \/ Includes(ToLowerCase(v.title), ToLowerCase(term))
    \/ Includes(ToLowerCase(v.channelName), ToLowerCase(term))

NoiseHit(v) == \E k \in 1..Len(NOISE_BLOCK_KEYWORDS) : Mentions(v, NOISE_BLOCK_KEYWORDS[k])

BrandHit(v) == Mentions(v, Xerox)

\* The user's own block settings reject the candidate.
UserBlocked(v, src) ==
    \/ \E k \in 1..Len(src.ngKeywords) : Mentions(v, src.ngKeywords[k])
    \/ v.channelId \in Range(src.ngChannels)

Validated == fn = "isValidRecommendation" /\ pc = "done"

\* C25 as stated: a candidate with a term of the brand/noise list is
\* rejected unless its channel is the allow-listed one, and a candidate of
\* the allow-listed channel is not rejected for such a term.
C25_NoiseRejectedUnlessAllowed ==
    Validated =>
        LET v == sources.video
        IN /\ ((NoiseHit(v) \/ BrandHit(v)) /\ v.channelId # XEROX_CHANNEL) => result = FALSE
           /\ (v.channelId = XEROX_CHANNEL /\ ~ UserBlocked(v, sources.source)) => result = TRUE

\* C25, amended: a candidate with a term of the noise list is rejected
\* whatever its channel; a candidate with the brand term is rejected unless
\* its channel is the allow-listed one; apart from the user's own blocks
\* nothing else is rejected.
C25_NoiseRejectedBrandAllowed ==
    Validated =>
        LET v == sources.video
        IN /\ NoiseHit(v) => result = FALSE
           /\ (BrandHit(v) /\ v.channelId # XEROX_CHANNEL) => result = FALSE
           /\ (/\ ~ NoiseHit(v)
               /\ ~ UserBlocked(v, sources.source)
               /\ (BrandHit(v) => v.channelId = XEROX_CHANNEL)) => result = TRUE

\* A video of the allow-listed channel with a noise term was rejected, and
\* the user's settings block nothing of it.
C25_Witness ==
    /\ Validated
    /\ sources.video.channelId = XEROX_CHANNEL
    /\ NoiseHit(sources.video)
    /\ BrandHit(sources.video)
    /\ ~ UserBlocked(sources.video, sources.source)
    /\ result = FALSE

\* C26: in HomePage, whatever the interleaving of effect runs, loadMore
\* calls and load completions, no id is twice in feed, twice in shortsFeed,
\* or in both.
C26_FeedIdsUnique ==
    home.mounted =>
        /\ \A i, j \in 1..Len(home.feed) : i # j => home.feed[i].id # home.feed[j].id
        /\ \A i, j \in 1..Len(home.shortsFeed) :
             i # j => home.shortsFeed[i].id # home.shortsFeed[j].id
        /\ Ids(home.feed) \intersect Ids(home.shortsFeed) = {}

\* After a reset and a later page, both lists are filled, and the ref
\* holds ids that a completed load brought and that are on neither list.
C26_Witness ==
    /\ home.mounted
    /\ home.effects = 2
    /\ home.page = 2
    /\ home.loads = {}
    /\ Len(home.feed) >= 3
    /\ Len(home.shortsFeed) >= 1
    /\ home.seenIds # Ids(home.feed) \union Ids(home.shortsFeed)

\* C27: while a loadRecommendations call is in flight, isLoading or
\* isFetchingMore is true, and loadMore starts no load while another one
\* is pending.
C27_OneLoadAtATime ==
    /\ [](home.mounted => (home.loads # {} => (home.isLoading \/ home.isFetchingMore)))
    /\ [][(home.mounted /\ home.page' = home.page + 1) => home.loads = {}]_vars

\* No value is twice in the sequence.
NoRepeat(list) == \A i, j \in 1..Len(list) : i # j => list[i] # list[j]

\* C28: in PreferenceProvider, after any sequence of the add and remove
\* handlers, two add calls before a re-render included, no list holds a
\* value twice, and after remove(x) the list does not hold x.
C28_ListsDuplicateFree ==
    (fn = "PreferenceProvider" /\ prefs.mounted) =>
        /\ \A list \in PreferenceLists : NoRepeat(prefs[list])
        /\ prefs.last.op = "remove" =>
             prefs.last.value \notin Range(prefs[prefs.last.list])

\* The import has run to its end.
Imported == fn = "importUserData" /\ prefs.promise \in {"resolved", "rejected"}

\* The file's text is JSON for an object with this field.
FileHas(key) ==
    /\ sources.file.text = "json"
    /\ sources.file.of.t = "object"
    /\ key \in DOMAIN sources.file.of.o

\* C29: importUserData on a file that is not JSON or has no subscriptions
\* or no history rejects, changes no localStorage key and reloads nothing;
\* on a file it accepts that has no preferences it resolves, writes the
\* three data keys from the file and leaves every preference key as it was.
C29_ImportAllOrNothing ==
    /\ fn = "importUserData" =>
         (prefs.promise \in {"none", "pending"} =>
              prefs.localStorage = sources.localStorage /\ prefs.reloads = 0)
    /\ Imported =>
         /\ (~ FileHas("subscriptions") \/ ~ FileHas("history")) =>
              /\ prefs.promise = "rejected"
              /\ prefs.localStorage = sources.localStorage
              /\ prefs.reloads = 0
         /\ prefs.promise = "rejected" =>
              prefs.localStorage = sources.localStorage /\ prefs.reloads = 0
         /\ (prefs.promise = "resolved" /\ ~ FileHas("preferences")) =>
              /\ \A key \in PreferenceKeys :
                   prefs.localStorage[key] = sources.localStorage[key]
              /\ prefs.localStorage["subscribedChannels"] =
                     [text |-> "json", of |-> sources.file.of.o["subscriptions"]]
              /\ prefs.localStorage["videoHistory"] =
                     [text |-> "json", of |-> sources.file.of.o["history"]]
              /\ prefs.localStorage["playlists"] =
                     [text |-> "json",
                      of |-> IF FileHas("playlists") THEN sources.file.of.o["playlists"]
                             ELSE [t |-> "array", a |-> <<>>]]
              /\ prefs.reloads = 1

\* A file with subscriptions and history but no playlists and no
\* preferences was imported over a browser that had preferences stored.
C29_Witness ==
    /\ Imported
    /\ prefs.promise = "resolved"
    /\ ~ FileHas("preferences")
    /\ ~ FileHas("playlists")
    /\ sources.localStorage["prefMood"] # Absent
    /\ sources.localStorage["ngKeywords"] # Absent
    /\ prefs.localStorage # sources.localStorage

\* C30: in the HomePage of part_004, no request for recommendations or for
\* trending videos goes out while the user is a new user, whether from the
\* initial-load effect, from loadMore or from a load they started, and
\* isLoading is false while the user is a new user.
C30_NewUserNoRequests ==
    (fn = "HomePage.part_004" /\ home.mounted) =>
        /\ \A request \in home.requests : ~ request.newUser
        /\ isNewUser(home.user) => ~ home.isLoading

====
